---- MODULE Spec2Model ----
(***************************************************************************)
(* Block validation and reward calculation of the pure DPoS consensus      *)
(* engine (clients/blockchain-core/consensus/hybrid.rs), the trust         *)
(* delegation chain (trust/delegation.rs), the compliance manager          *)
(* (compliance/mod.rs) and the bridge oracle (src/bridge/oracle.rs).       *)
(*                                                                         *)
(* Six specifications: Spec runs validate_block gate by gate, SpecTrust    *)
(* runs the operations of the delegation chain, SpecRewards runs           *)
(* calculate_block_rewards statement by statement, SpecCompliance runs the *)
(* operations of the compliance manager, SpecBridge the two bridging       *)
(* operations of the oracle, SpecMultiplier the trust-multiplier lookup.   *)
(*                                                                         *)
(* Number representation.  f64 quantities in [0,1] (trust scores,          *)
(* environmental scores, renewable usage, weights) are fixed point in      *)
(* units of 1/Scale; the inputs drawn below are chosen so that every       *)
(* division of the modelled formulas is exact.  u128 stakes are counted in *)
(* thousands of ZPC.  u64 times are seconds; the wrapping subtraction of a *)
(* release build is modelled modulo TimeModulus.  Byte strings             *)
(* (signatures) are modelled by their kind: "empty" (zero bytes), "forged" *)
(* (bytes that are no signature of the block by the declared key) and      *)
(* "valid".  Option values are sequences of length 0 (None) or 1 (Some).   *)
(* The reward calculation alone is computed in the code's own numbers:     *)
(* u128 as naturals of any size and f64 as binary64 with its rounding.     *)
(***************************************************************************)
EXTENDS Integers, Sequences, FiniteSets, TLC

VARIABLES
    validators,            \* ValidatorSet.validators: address -> Validator
    active_validators,     \* ValidatorSet.active_validators: Vec<String>
    chain,                 \* TrustDelegationChain: foundation, origin_wallets, issuers,
                           \*   individuals, delegation_graph
    wallet_level,          \* compliance level of the proposer's origin wallet
    now,                   \* SystemTime::now() as read by the environmental gate
    block,                 \* the Block handed to validate_block
    pc,                    \* position of validate_block
    trace,                 \* the gates evaluated so far, in order
    reason,                \* the return statement that rejected the block
    result,                \* value returned by validate_block
    last_call,             \* the last call of the delegation chain: operation, arguments, return
    issued,                \* the delegations create_delegation has returned, oldest first
    revoked,               \* the ids of issued delegations revoke_delegation was called with
    rewards,               \* calculate_block_rewards: position and the values computed so far
    compliance_manager,    \* ComplianceManager: layers, origin_wallets, active_rules,
                           \*   compliance_cache
    bridge_oracle,         \* BridgeOracle: validators, mainnet_vault, privacy_mint, params
    reward_config          \* RewardConfig.trust_multipliers: base_multiplier, trust_thresholds

vars == <<validators, active_validators, chain, wallet_level,
          now, block, pc, trace, reason, result,
          last_call, issued, revoked, rewards,
          compliance_manager, bridge_oracle, reward_config>>

-----------------------------------------------------------------------------
(* Bounds of the model *)

MaxActive == 4

MaxSigs == 4

MaxTx == 2

\* create_delegation calls explored in one run
MaxDelegations == 2

-----------------------------------------------------------------------------
(* Program constants *)

Scale == 10000

StakeThreshold == 100

TrustThreshold == 7000

StubTrustScore == 8000

CarbonMax == 1000

ScoreTolerance == 100

FreshnessWindow == 3600

SigThresholdNum == 2 * 100 + 3

SigThresholdDen == 3 * 100

quantum_signatures == TRUE

fallback_signatures == TRUE

TimeModulus == 2 ^ 30

-----------------------------------------------------------------------------
(* Helpers *)

None == <<>>

Some(x) == <<x>>

IsSome(o) == Len(o) = 1

Unwrap(o) == o[1]

Min(a, b) == IF a < b THEN a ELSE b

Abs(a) == IF a < 0 THEN 0 - a ELSE a

Contains(s, x) == \E i \in 1..Len(s) : s[i] = x

IsEmpty(bytes) == bytes = "empty"

-----------------------------------------------------------------------------
(* Stubs of the consensus engine *)

verify_validator_signature(signature, b) == TRUE

calculate_trust_score(address) == StubTrustScore

detect_suspicious_patterns(address) == FALSE

validate_trust_delegation_chains(b) == TRUE

get_origin_wallet_compliance_level(address) == "Basic"

has_high_value_transactions(b) == FALSE

has_cross_border_transactions(b) == FALSE

has_governance_transactions(b) == FALSE

verify_military_compliance(address) == TRUE

-----------------------------------------------------------------------------
(* Gate 1: proposer eligibility and signature quorum *)

\* the quorum with the margin 0.01 left out: ceil(n * 2/3)
required_signatures_TwoThirds(n) == (n * 2 + 2) \div 3

required_signatures(n) ==
    (n * SigThresholdNum + SigThresholdDen - 1) \div SigThresholdDen

\* the proposer checks with the stake comparison left out
ProposerCheck_NoStake(b) ==
    IF ~IsSome(b.header.proposer) THEN "no_proposer"
    ELSE LET proposer == Unwrap(b.header.proposer) IN
         IF ~Contains(active_validators, proposer) THEN "proposer_not_active"
         ELSE IF proposer \notin DOMAIN validators THEN "proposer_unregistered"
         ELSE IF validators[proposer].trust_score < TrustThreshold THEN "trust_score_too_low"
         ELSE IF ~validators[proposer].is_active THEN "validator_inactive"
         ELSE "ok"

ProposerCheck(b) ==
    IF ~IsSome(b.header.proposer) THEN "no_proposer"
    ELSE LET proposer == Unwrap(b.header.proposer) IN
         IF ~Contains(active_validators, proposer) THEN "proposer_not_active"
         ELSE IF proposer \notin DOMAIN validators THEN "proposer_unregistered"
         ELSE IF validators[proposer].stake < StakeThreshold THEN "insufficient_stake"
         ELSE IF validators[proposer].trust_score < TrustThreshold THEN "trust_score_too_low"
         ELSE IF ~validators[proposer].is_active THEN "validator_inactive"
         ELSE "ok"

QuorumCheck(b) ==
    IF Len(b.header.validator_signatures) < required_signatures(Len(active_validators))
    THEN "insufficient_signatures"
    ELSE IF \E i \in 1..Len(b.header.validator_signatures) :
                ~verify_validator_signature(b.header.validator_signatures[i], b)
         THEN "invalid_validator_signature"
         ELSE "ok"

validate_validator_signatures(b) ==
    IF ProposerCheck(b) # "ok" THEN ProposerCheck(b) ELSE QuorumCheck(b)

-----------------------------------------------------------------------------
(* Gate 2: trust requirements *)

validate_trust_requirements(b) ==
    IF IsSome(b.header.proposer) /\ calculate_trust_score(Unwrap(b.header.proposer)) < TrustThreshold
    THEN "proposer_trust_too_low"
    ELSE IF IsSome(b.header.proposer) /\ detect_suspicious_patterns(Unwrap(b.header.proposer))
    THEN "suspicious_pattern"
    ELSE IF ~validate_trust_delegation_chains(b) THEN "delegation_chain_invalid"
    ELSE "ok"

-----------------------------------------------------------------------------
(* Gate 3: environmental data *)

\* the score with the carbon term not inverted: carbon_footprint/1000 for 1 - carbon_footprint/1000
calculate_environmental_score_NoInvert(env) ==
    LET carbon_score == Min((env.carbon_footprint * Scale) \div CarbonMax, Scale)
        renewable_score == env.renewable_energy_usage
    IN (carbon_score + renewable_score) \div 2

calculate_environmental_score(env) ==
    LET carbon_score == Scale - Min((env.carbon_footprint * Scale) \div CarbonMax, Scale)
        renewable_score == env.renewable_energy_usage
    IN (carbon_score + renewable_score) \div 2

EnvArithmetic(env) ==
    IF env.carbon_footprint < 0 \/ env.carbon_footprint > CarbonMax
    THEN "carbon_out_of_range"
    ELSE IF env.renewable_energy_usage < 0 \/ env.renewable_energy_usage > Scale
    THEN "renewable_out_of_range"
    ELSE IF Abs(calculate_environmental_score(env) - env.environmental_score) > ScoreTolerance
    THEN "score_mismatch"
    ELSE "ok"

WrappingSub(a, b) == (a - b + TimeModulus) % TimeModulus

\* the freshness check with >= for >: data exactly one hour old is stale
EnvFreshness_Inclusive(env, current_time) ==
    IF env.last_updated > current_time
    THEN {"panic",
          IF WrappingSub(current_time, env.last_updated) >= FreshnessWindow
          THEN "stale" ELSE "ok"}
    ELSE {IF current_time - env.last_updated >= FreshnessWindow THEN "stale" ELSE "ok"}

\* current_time - last_updated on u64: a build with overflow checks aborts when
\* last_updated is later than current_time, a build without them wraps around.
EnvFreshness(env, current_time) ==
    IF env.last_updated > current_time
    THEN {"panic",
          IF WrappingSub(current_time, env.last_updated) > FreshnessWindow
          THEN "stale" ELSE "ok"}
    ELSE {IF current_time - env.last_updated > FreshnessWindow THEN "stale" ELSE "ok"}

validate_environmental_data(b, current_time) ==
    IF ~IsSome(b.environmental_data) THEN {"ok"}
    ELSE LET env == Unwrap(b.environmental_data) IN
         IF EnvArithmetic(env) # "ok" THEN {EnvArithmetic(env)}
         ELSE EnvFreshness(env, current_time)

-----------------------------------------------------------------------------
(* Gate 4: origin wallet compliance *)

validate_origin_wallet_compliance(b) ==
    IF ~IsSome(b.header.proposer) THEN "ok"
    ELSE LET level == get_origin_wallet_compliance_level(Unwrap(b.header.proposer)) IN
         CASE level = "Government" -> "ok"
           [] level = "Institutional" ->
                IF has_high_value_transactions(b) THEN "requires_government" ELSE "ok"
           [] level = "Enhanced" ->
                IF has_high_value_transactions(b) \/ has_cross_border_transactions(b)
                THEN "requires_institutional" ELSE "ok"
           [] level = "Basic" ->
                IF \/ has_high_value_transactions(b)
                   \/ has_cross_border_transactions(b)
                   \/ has_governance_transactions(b)
                THEN "requires_enhanced" ELSE "ok"
           [] level = "Military" ->
                IF ~verify_military_compliance(Unwrap(b.header.proposer))
                THEN "military_attestation_failed" ELSE "ok"

-----------------------------------------------------------------------------
(* Gate 5: quantum-resistant signatures *)

validate_quantum_signatures(b) ==
    IF IsSome(b.header.proposer) /\ quantum_signatures /\ IsEmpty(b.header.dilithium_signature)
    THEN "empty_header_signature"
    ELSE IF \E i \in 1..Len(b.transactions) :
                quantum_signatures /\ IsEmpty(b.transactions[i].signature.dilithium_signature)
         THEN "empty_transaction_signature"
         ELSE "ok"

-----------------------------------------------------------------------------
(* Trust scoring of the delegation chain (trust/delegation.rs) *)

FoundationAddress == "zpc1foundation"

\* get_delegation_capacity and get_used_delegation_capacity: the values the code returns
StubCapacity == 1000000
StubUsedCapacity == 0
\* calculate_flow_strength: the value the code returns
StubFlowStrength == 8000
\* verify_trust_flow_strength: flow_strength < 0.5 fails
MinFlowStrength == 5000

TypeWeight(t) ==
    CASE t = "Trust" -> 10 [] t = "Governance" -> 8 [] t = "KYC" -> 9
      [] t = "Compliance" -> 7 [] t = "Technical" -> 6 [] t = "Economic" -> 5

LevelWeight(l) ==
    CASE l = "Level1" -> 10 [] l = "Level2" -> 8 [] l = "Level3" -> 6 [] l = "Level4" -> 4

\* base_weight * level_weight, in hundredths
calculate_delegation_weight(d) ==
    TypeWeight(d.delegation_type) * LevelWeight(d.delegation_level)

get_entity_trust_score(c, entity_id) ==
    IF entity_id = c.foundation.address THEN Scale
    ELSE IF entity_id \in DOMAIN c.origin_wallets THEN c.origin_wallets[entity_id].trust_score
    ELSE IF entity_id \in DOMAIN c.issuers THEN c.issuers[entity_id].trust_score
    ELSE IF entity_id \in DOMAIN c.individuals THEN c.individuals[entity_id].trust_score
    ELSE 0

RECURSIVE AllDelegations(_, _)
AllDelegations(entities, keys) ==
    IF keys = {} THEN <<>>
    ELSE LET k == CHOOSE x \in keys : TRUE
         IN entities[k].active_delegations \o AllDelegations(entities, keys \ {k})

IsIncoming(d, entity_id) == d.delegate = entity_id /\ d.is_active

get_incoming_delegations(c, entity_id) ==
    LET all == AllDelegations(c.origin_wallets, DOMAIN c.origin_wallets)
                  \o AllDelegations(c.issuers, DOMAIN c.issuers)
    IN [i \in {j \in 1..Len(all) : IsIncoming(all[j], entity_id)} |-> all[i]]

RECURSIVE SumOver(_, _, _)
SumOver(f, idx, c) ==
    IF idx = {} THEN [total_trust |-> 0, weight_sum |-> 0]
    ELSE LET i == CHOOSE x \in idx : TRUE
             rest == SumOver(f, idx \ {i}, c)
             w == calculate_delegation_weight(f[i]) * f[i].trust_amount
         IN [total_trust |-> rest.total_trust + get_entity_trust_score(c, f[i].delegator) * w,
             weight_sum |-> rest.weight_sum + w]

\* TrustDelegationChain::calculate_trust_score, rounded down to 1/Scale
chain_trust_score(c, entity_id) ==
    LET incoming == get_incoming_delegations(c, entity_id)
        sums == SumOver(incoming, DOMAIN incoming, c)
    IN IF sums.weight_sum > 0 THEN sums.total_trust \div sums.weight_sum ELSE 0

-----------------------------------------------------------------------------
(* Operations of the delegation chain (trust/delegation.rs) *)

\* Result values
Ok(v) == [kind |-> "Ok", value |-> v]
Err(e) == [kind |-> "Err", error |-> e]

\* a HashMap with the entry k -> v inserted
Insert(map, k, v) == [x \in DOMAIN map \cup {k} |-> IF x = k THEN v ELSE map[x]]

\* The routines the code leaves as TODO, with the values they return.
is_rapid_delegation(c, delegator, delegate) == FALSE
would_create_circular_delegation(c, delegator, delegate) == FALSE
is_excessive_trust_amount(c, delegator, trust_amount) == FALSE
get_delegation_capacity(c, entity_id) == StubCapacity
get_used_delegation_capacity(c, entity_id) == StubUsedCapacity
calculate_flow_strength(path) == StubFlowStrength
find_delegation(c, delegation_id) == None
remove_delegation_from_graph(c, delegation) == c
remove_trust_flow(c, delegation) == c
verify_foundation_signature(foundation, origin_wallet) == TRUE
has_delegation(c, origin_wallet, issuer) == TRUE

\* uuid::Uuid::new_v4 never repeats: the n-th id handed out is named by n
generate_delegation_id(n) == "delegation_" \o ToString(n)

has_sufficient_trust_capacity(c, delegator, trust_amount) ==
    get_used_delegation_capacity(c, delegator) + trust_amount
        <= get_delegation_capacity(c, delegator)

detect_suspicious_delegation(c, delegator, delegate, trust_amount) ==
    \/ is_rapid_delegation(c, delegator, delegate)
    \/ would_create_circular_delegation(c, delegator, delegate)
    \/ is_excessive_trust_amount(c, delegator, trust_amount)

determine_delegation_level(c, delegator, delegate) ==
    IF delegator = c.foundation.address THEN "Level1"
    ELSE IF delegator \in DOMAIN c.origin_wallets THEN "Level2"
    ELSE IF delegator \in DOMAIN c.issuers THEN "Level3"
    ELSE "Level4"

DelegationEdge(delegation) ==
    [edge_id |-> delegation.delegation_id, from_node |-> delegation.delegator,
     to_node |-> delegation.delegate, trust_amount |-> delegation.trust_amount,
     delegation_type |-> delegation.delegation_type, is_active |-> TRUE,
     created_at |-> delegation.created_at]

\* edges.entry(delegator).or_insert_with(Vec::new).push(edge)
update_delegation_graph(c, delegation) ==
    LET edges == c.delegation_graph.edges
        from == delegation.delegator
        old == IF from \in DOMAIN edges THEN edges[from] ELSE <<>>
    IN [c EXCEPT !.delegation_graph.edges =
            Insert(edges, from, Append(old, DelegationEdge(delegation)))]

FlowId(delegation_id) == "flow_" \o delegation_id

update_trust_flows(c, delegation, t) ==
    LET path == <<delegation.delegator, delegation.delegate>>
        trust_flow == [flow_id |-> FlowId(delegation.delegation_id), path |-> path,
                       total_trust |-> delegation.trust_amount,
                       flow_strength |-> calculate_flow_strength(path),
                       is_valid |-> TRUE, last_verified |-> t]
    IN [c EXCEPT !.delegation_graph.trust_flows =
            Insert(c.delegation_graph.trust_flows, trust_flow.flow_id, trust_flow)]

NewDelegation(c, delegation_id, delegator, delegate, delegation_type, trust_amount, t) ==
    [delegation_id |-> delegation_id, delegator |-> delegator, delegate |-> delegate,
     delegation_type |-> delegation_type, trust_amount |-> trust_amount,
     delegation_level |-> determine_delegation_level(c, delegator, delegate),
     is_active |-> TRUE, created_at |-> t]

\* create_delegation with the graph written before the capacity is checked
create_delegation_GraphFirst(c, delegation_id, delegator, delegate, delegation_type, trust_amount, t) ==
    LET delegation == NewDelegation(c, delegation_id, delegator, delegate,
                                    delegation_type, trust_amount, t)
        written == update_trust_flows(update_delegation_graph(c, delegation), delegation, t)
    IN IF ~has_sufficient_trust_capacity(c, delegator, trust_amount)
       THEN [chain |-> written, ret |-> Err("InsufficientTrustCapacity")]
       ELSE IF detect_suspicious_delegation(c, delegator, delegate, trust_amount)
       THEN [chain |-> written, ret |-> Err("SuspiciousActivity")]
       ELSE [chain |-> written, ret |-> Ok(delegation)]

\* create_delegation: the chain it leaves and the value it returns
create_delegation(c, delegation_id, delegator, delegate, delegation_type, trust_amount, t) ==
    IF ~has_sufficient_trust_capacity(c, delegator, trust_amount)
    THEN [chain |-> c, ret |-> Err("InsufficientTrustCapacity")]
    ELSE IF detect_suspicious_delegation(c, delegator, delegate, trust_amount)
    THEN [chain |-> c, ret |-> Err("SuspiciousActivity")]
    ELSE LET delegation == NewDelegation(c, delegation_id, delegator, delegate,
                                         delegation_type, trust_amount, t)
         IN [chain |-> update_trust_flows(update_delegation_graph(c, delegation),
                                          delegation, t),
             ret |-> Ok(delegation)]

\* revoke_delegation answering an id it cannot find with an error
revoke_delegation_NotFound(c, delegation_id, revocation_reason) ==
    LET found == find_delegation(c, delegation_id)
    IN IF IsSome(found)
       THEN [chain |-> remove_trust_flow(remove_delegation_from_graph(c, Unwrap(found)),
                                         Unwrap(found)),
             ret |-> Ok("()")]
       ELSE [chain |-> c, ret |-> Err("DelegationNotFound")]

\* revoke_delegation: the chain it leaves and the value it returns
revoke_delegation(c, delegation_id, revocation_reason) ==
    LET found == find_delegation(c, delegation_id)
    IN IF IsSome(found)
       THEN [chain |-> remove_trust_flow(remove_delegation_from_graph(c, Unwrap(found)),
                                         Unwrap(found)),
             ret |-> Ok("()")]
       ELSE [chain |-> c, ret |-> Ok("()")]

verify_foundation_to_origin_wallet(c, foundation, origin_wallet) ==
    /\ c.foundation.is_active
    /\ origin_wallet \in DOMAIN c.origin_wallets
    /\ c.origin_wallets[origin_wallet].is_active
    /\ verify_foundation_signature(foundation, origin_wallet)

verify_origin_wallet_to_issuer(c, origin_wallet, issuer) ==
    /\ origin_wallet \in DOMAIN c.origin_wallets
    /\ c.origin_wallets[origin_wallet].is_active
    /\ issuer \in DOMAIN c.issuers
    /\ c.issuers[issuer].is_active
    /\ has_delegation(c, origin_wallet, issuer)

verify_issuer_to_individual(c, issuer, individual) ==
    /\ issuer \in DOMAIN c.issuers
    /\ c.issuers[issuer].is_active
    /\ individual \in DOMAIN c.individuals
    /\ c.individuals[individual].is_active
    /\ c.individuals[individual].issuer = issuer

\* every position of a delegation chain weighing 1.0
PositionWeight_Unweighted(i) == 10

\* level_weight of position i of a delegation chain (positions from 1), in tenths
PositionWeight(i) == CASE i = 1 -> 10 [] i = 2 -> 8 [] i = 3 -> 6 [] OTHER -> 4

RECURSIVE TotalStrength(_, _, _)
TotalStrength(c, delegation_chain, i) ==
    IF i > Len(delegation_chain) THEN 0
    ELSE get_entity_trust_score(c, delegation_chain[i]) * PositionWeight(i)
            + TotalStrength(c, delegation_chain, i + 1)

\* total_strength / count, rounded down to 1/Scale
calculate_trust_flow_strength(c, credential) ==
    LET count == Len(credential.delegation_chain)
    IN IF count > 0
       THEN TotalStrength(c, credential.delegation_chain, 1) \div (10 * count)
       ELSE 0

verify_trust_flow_strength(c, credential) ==
    ~(calculate_trust_flow_strength(c, credential) < MinFlowStrength)

verify_chain(c, credential) ==
    LET dc == credential.delegation_chain
    IN IF Len(dc) < 3 THEN FALSE
       ELSE IF ~verify_foundation_to_origin_wallet(c, dc[1], dc[2]) THEN FALSE
       ELSE IF ~verify_origin_wallet_to_issuer(c, dc[2], dc[3]) THEN FALSE
       ELSE IF ~verify_issuer_to_individual(c, dc[3], credential.owner) THEN FALSE
       ELSE IF ~verify_trust_flow_strength(c, credential) THEN FALSE
       ELSE TRUE

-----------------------------------------------------------------------------
(* Arithmetic of calculate_block_rewards: u128 and f64 (IEEE 754 binary64)

   A u128 is a natural of any size, held as a sequence of limbs, least significant
   first, without a leading zero limb.  A finite non-negative f64 is m * 2^e with a
   mantissa m of exactly 53 bits, or zero.  Products and sums are rounded to nearest,
   ties to even, as the hardware rounds them.  Subnormals, infinities and NaN are not
   represented: the values of the reward calculation stay between 2^-60 and 2^70. *)

LimbBits == 12
LimbBase == 2 ^ LimbBits
MantissaBits == 53

RECURSIVE Trim(_)
Trim(a) == IF a # <<>> /\ a[Len(a)] = 0 THEN Trim(SubSeq(a, 1, Len(a) - 1)) ELSE a

RECURSIVE NatOf(_)
NatOf(n) == IF n = 0 THEN <<>> ELSE <<n % LimbBase>> \o NatOf(n \div LimbBase)

Limb(a, i) == IF i <= Len(a) THEN a[i] ELSE 0

RECURSIVE AddCarry(_, _, _, _)
AddCarry(a, b, i, carry) ==
    IF i > Len(a) /\ i > Len(b) THEN NatOf(carry)
    ELSE LET s == Limb(a, i) + Limb(b, i) + carry
         IN <<s % LimbBase>> \o AddCarry(a, b, i + 1, s \div LimbBase)

AddNat(a, b) == AddCarry(a, b, 1, 0)

RECURSIVE MulCarry(_, _, _, _)
MulCarry(a, d, i, carry) ==
    IF i > Len(a) THEN NatOf(carry)
    ELSE LET s == a[i] * d + carry
         IN <<s % LimbBase>> \o MulCarry(a, d, i + 1, s \div LimbBase)

\* a * d for d < 2^18
MulSmall(a, d) == Trim(MulCarry(a, d, 1, 0))

ShiftLimbs(a, k) == IF a = <<>> THEN <<>> ELSE [i \in 1..k |-> 0] \o a

DropLimbs(a, k) == IF k >= Len(a) THEN <<>> ELSE SubSeq(a, k + 1, Len(a))

RECURSIVE MulFrom(_, _, _)
MulFrom(a, b, i) ==
    IF i > Len(b) THEN <<>>
    ELSE AddNat(ShiftLimbs(MulSmall(a, b[i]), i - 1), MulFrom(a, b, i + 1))

MulNat(a, b) == MulFrom(a, b, 1)

RECURSIVE DivFrom(_, _, _, _)
DivFrom(a, d, i, rem) ==
    IF i = 0 THEN [q |-> <<>>, r |-> rem]
    ELSE LET cur == rem * LimbBase + a[i]
             rest == DivFrom(a, d, i - 1, cur % d)
         IN [q |-> rest.q \o <<cur \div d>>, r |-> rest.r]

\* quotient and remainder of a by d, for 0 < d < 2^18
DivSmall(a, d) == LET x == DivFrom(a, d, Len(a), 0) IN [q |-> Trim(x.q), r |-> x.r]

RECURSIVE SmallBitLen(_)
SmallBitLen(n) == IF n = 0 THEN 0 ELSE 1 + SmallBitLen(n \div 2)

BitLen(a) == IF a = <<>> THEN 0 ELSE (Len(a) - 1) * LimbBits + SmallBitLen(a[Len(a)])

ShiftLeft(a, k) == ShiftLimbs(MulSmall(a, 2 ^ (k % LimbBits)), k \div LimbBits)

ShiftRight(a, k) == DivSmall(DropLimbs(a, k \div LimbBits), 2 ^ (k % LimbBits)).q

\* bit j of a, bit 0 the least significant
Bit(a, j) == (Limb(a, j \div LimbBits + 1) \div 2 ^ (j % LimbBits)) % 2

\* the k lowest bits of a are zero
LowBitsZero(a, k) ==
    /\ \A i \in 1..(k \div LimbBits) : Limb(a, i) = 0
    /\ Limb(a, k \div LimbBits + 1) % 2 ^ (k % LimbBits) = 0

RECURSIVE LessFrom(_, _, _)
LessFrom(a, b, i) ==
    IF i = 0 THEN FALSE
    ELSE IF a[i] # b[i] THEN a[i] < b[i]
    ELSE LessFrom(a, b, i - 1)

LessNat(a, b) == IF Len(a) # Len(b) THEN Len(a) < Len(b) ELSE LessFrom(a, b, Len(a))

F64(m, e) == [m |-> m, e |-> e]

FZero == F64(<<>>, 0)

\* the f64 nearest to n * 2^e (+ a little, if sticky), ties to even
RoundF64(n, e, sticky) ==
    LET len == BitLen(n)
    IN IF len = 0 THEN FZero
       ELSE IF len <= MantissaBits
       THEN F64(ShiftLeft(n, MantissaBits - len), e - (MantissaBits - len))
       ELSE LET k == len - MantissaBits
                q == ShiftRight(n, k)
                half == Bit(n, k - 1) = 1
                rest == sticky \/ ~LowBitsZero(n, k - 1)
                r == IF half /\ (rest \/ Bit(q, 0) = 1) THEN AddNat(q, <<1>>) ELSE q
            IN IF BitLen(r) > MantissaBits
               THEN F64(ShiftRight(r, 1), e + k + 1)
               ELSE F64(r, e + k)

\* x * y
FMul(x, y) ==
    IF x.m = <<>> \/ y.m = <<>> THEN FZero
    ELSE RoundF64(MulNat(x.m, y.m), x.e + y.e, FALSE)

\* x + y
FAdd(x, y) ==
    IF x.m = <<>> THEN y
    ELSE IF y.m = <<>> THEN x
    ELSE LET e == Min(x.e, y.e)
         IN RoundF64(AddNat(ShiftLeft(x.m, x.e - e), ShiftLeft(y.m, y.e - e)), e, FALSE)

\* x < y
FLess(x, y) ==
    IF y.m = <<>> THEN FALSE
    ELSE IF x.m = <<>> THEN TRUE
    ELSE LET e == Min(x.e, y.e)
         IN LessNat(ShiftLeft(x.m, x.e - e), ShiftLeft(y.m, y.e - e))

\* f64::min
FMin(x, y) == IF FLess(y, x) THEN y ELSE x

\* n as f64
NatAsF64(n) == RoundF64(n, 0, FALSE)

\* x as u128: the fraction is dropped
F64AsNat(x) == IF x.e >= 0 THEN ShiftLeft(x.m, x.e) ELSE ShiftRight(x.m, 0 - x.e)

\* the f64 a decimal literal of value n / d denotes, for small n and 0 < d <= Scale
Literal(n, d) ==
    IF n = 0 THEN FZero
    ELSE LET x == DivSmall(ShiftLeft(NatOf(n), 70), d)
         IN RoundF64(x.q, 0 - 70, x.r # 0)

-----------------------------------------------------------------------------
(* calculate_block_rewards (consensus/hybrid.rs) *)

\* RewardDistributionEngine as PureDPoSConsensus::new builds it
BlockReward == MulNat(MulNat(NatOf(50000000), NatOf(1000000)), NatOf(1000000))

HalvingSchedule ==
    <<[block_height |-> 210000, reward_multiplier |-> Literal(5, 10)],
      [block_height |-> 420000, reward_multiplier |-> Literal(25, 100)]>>

DistributionRules ==
    [validators |-> Literal(5, 10), edge_nodes |-> Literal(2, 10),
     stakers |-> Literal(15, 100), dev_fund |-> Literal(1, 10),
     environmental_fund |-> Literal(5, 100)]

\* min_trust and max_trust in 1/Scale
TrustThresholds ==
    <<[min_trust |-> 0, max_trust |-> 3000, multiplier |-> Literal(1, 1)],
      [min_trust |-> 3000, max_trust |-> 6000, multiplier |-> Literal(12, 10)],
      [min_trust |-> 6000, max_trust |-> 8000, multiplier |-> Literal(15, 10)],
      [min_trust |-> 8000, max_trust |-> 10000, multiplier |-> Literal(2, 1)]>>

BaseMultiplier == Literal(1, 1)

\* RewardConfig.trust_multipliers as PureDPoSConsensus::new builds it
DefaultTrustMultipliers ==
    [base_multiplier |-> BaseMultiplier, trust_thresholds |-> TrustThresholds]

EnvironmentalBonuses ==
    [carbon_offset_bonus |-> Literal(1, 10), renewable_energy_bonus |-> Literal(1, 10),
     environmental_verification_bonus |-> Literal(5, 100),
     max_environmental_bonus |-> Literal(25, 100)]

\* the f64 fields of EnvironmentalData: carbon_footprint in units, the usage in 1/Scale
CarbonFootprint(env) == Literal(env.carbon_footprint, 1)
RenewableEnergyUsage(env) == Literal(env.renewable_energy_usage, Scale)

\* the loop over trust_thresholds returning the last bucket that holds the score
TrustMultiplierFor_LastBucket(trust_multipliers, trust_score) ==
    LET thresholds == trust_multipliers.trust_thresholds
        matching == {i \in 1..Len(thresholds) :
                        /\ trust_score >= thresholds[i].min_trust
                        /\ trust_score < thresholds[i].max_trust}
    IN IF matching # {}
       THEN thresholds[CHOOSE i \in matching : \A j \in matching : i >= j].multiplier
       ELSE trust_multipliers.base_multiplier

\* the loop over trust_thresholds and the return after it, for the trust score
\* calculate_trust_score returned
TrustMultiplierFor(trust_multipliers, trust_score) ==
    LET thresholds == trust_multipliers.trust_thresholds
        matching == {i \in 1..Len(thresholds) :
                        /\ trust_score >= thresholds[i].min_trust
                        /\ trust_score < thresholds[i].max_trust}
    IN IF matching # {}
       THEN thresholds[CHOOSE i \in matching : \A j \in matching : i <= j].multiplier
       ELSE trust_multipliers.base_multiplier

calculate_trust_multiplier(b) ==
    IF IsSome(b.header.proposer)
    THEN TrustMultiplierFor(DefaultTrustMultipliers,
                            calculate_trust_score(Unwrap(b.header.proposer)))
    ELSE DefaultTrustMultipliers.base_multiplier

calculate_environmental_bonus(b) ==
    IF IsSome(b.environmental_data)
    THEN LET env_data == Unwrap(b.environmental_data)
             carbon_bonus == FMul(CarbonFootprint(env_data),
                                  EnvironmentalBonuses.carbon_offset_bonus)
             renewable_bonus == FMul(RenewableEnergyUsage(env_data),
                                     EnvironmentalBonuses.renewable_energy_bonus)
             verification_bonus == EnvironmentalBonuses.environmental_verification_bonus
             total_bonus == FAdd(FAdd(carbon_bonus, renewable_bonus), verification_bonus)
         IN FMin(total_bonus, EnvironmentalBonuses.max_environmental_bonus)
    ELSE FZero

\* (total_reward as f64 * share) as u128
Pool(total_reward, share) == F64AsNat(FMul(NatAsF64(total_reward), share))

\* (base_reward as f64 * trust_multiplier * (1.0 + environmental_bonus)) as u128
TotalReward(base_reward, trust_multiplier, environmental_bonus) ==
    F64AsNat(FMul(FMul(NatAsF64(base_reward), trust_multiplier),
                  FAdd(Literal(1, 1), environmental_bonus)))

\* the RewardDistribution calculate_block_rewards returns
RewardDistribution(total_reward) ==
    [validators |-> Pool(total_reward, DistributionRules.validators),
     edge_nodes |-> Pool(total_reward, DistributionRules.edge_nodes),
     stakers |-> Pool(total_reward, DistributionRules.stakers),
     dev_fund |-> Pool(total_reward, DistributionRules.dev_fund),
     environmental_fund |-> Pool(total_reward, DistributionRules.environmental_fund)]

-----------------------------------------------------------------------------
(* The blocks and engine states validate_block is run on *)

Address(i) == "v" \o ToString(i)

Validator(stake, trust, active) ==
    [stake |-> stake, trust_score |-> trust, is_active |-> active]

GoodValidator == Validator(StakeThreshold, TrustThreshold, TRUE)

\* the registry entry of the proposer v1: absent, eligible, or failing one requirement
ProposerEntries ==
    {None, Some(GoodValidator),
     Some(Validator(StakeThreshold - 1, TrustThreshold, TRUE)),
     Some(Validator(StakeThreshold, TrustThreshold - 1, TRUE)),
     Some(Validator(StakeThreshold + 1, Scale, FALSE))}

Registry(entry, n) ==
    [a \in {Address(i) : i \in (IF IsSome(entry) THEN 1 ELSE 2)..n} |->
        IF a = Address(1) THEN Unwrap(entry) ELSE GoodValidator]

Roster(n) == [i \in 1..n |-> Address(i)]

ValidatorSignature(id, bytes) == [validator_id |-> id, signature |-> bytes]

SignatureKinds == {"empty", "forged", "valid"}

\* k signatures by v1..vk, all valid except that the last has the given kind
SignatureList(k, last) ==
    [i \in 1..k |-> ValidatorSignature(Address(i), IF i = k THEN last ELSE "valid")]

SignatureLists(ks) == {SignatureList(k, last) : k \in ks, last \in SignatureKinds}

Transaction(kind, bytes) ==
    [kind |-> kind, signature |-> [dilithium_signature |-> bytes]]

TransactionKinds == {"Standard", "HighValue", "CrossBorder", "Governance"}

\* k transactions, all standard and validly signed except the last
TransactionList(k, kind, bytes) ==
    [i \in 1..k |-> IF i = k THEN Transaction(kind, bytes) ELSE Transaction("Standard", "valid")]

GoodTransactions == TransactionList(1, "Standard", "valid")

EnvironmentalData(cf, re, score, updated) ==
    [carbon_footprint |-> cf, renewable_energy_usage |-> re,
     environmental_score |-> score, last_updated |-> updated]

Clock == {5000}

ScoreOf(cf, re) == calculate_environmental_score(EnvironmentalData(cf, re, 0, 0))

\* {carbon_footprint: 500, renewable_energy_usage: 0.4, environmental_score: 0.45}
\* and its neighbours at the edges of each arithmetic check
EnvArithmeticCases ==
    {<<cf, 4000, ScoreOf(cf, 4000)>> : cf \in {0 - 2, 0, 500, CarbonMax, CarbonMax + 2}}
    \cup {<<500, re, ScoreOf(500, re)>> : re \in {0 - 2, 0, Scale, Scale + 2}}
    \cup {<<500, 4000, 4500 + d>> :
            d \in {0 - ScoreTolerance - 2, 0 - ScoreTolerance, ScoreTolerance, ScoreTolerance + 2}}

\* last_updated relative to the clock: fresh, at the edge, stale, in the future
AgeCases == {0, FreshnessWindow, FreshnessWindow + 1, 0 - 2}

EnvironmentalCases(t) ==
    {None}
    \cup {Some(EnvironmentalData(a[1], a[2], a[3], t)) : a \in EnvArithmeticCases}
    \cup {Some(EnvironmentalData(500, 4000, 4500, t - age)) : age \in AgeCases}
    \cup {Some(EnvironmentalData(500, 4000, 4500 + ScoreTolerance + 2, t - FreshnessWindow - 1))}

\* an empty HashMap
NoEntities == <<>>

\* delegation_capacity of the registered origin wallets and issuers
RegisteredCapacity == 1000

\* DelegationGraph as TrustDelegationChain::new builds it
EmptyGraph == [nodes |-> NoEntities, edges |-> NoEntities, trust_flows |-> NoEntities]

Delegation(id, from, to, type, level, amount) ==
    [delegation_id |-> id, delegator |-> from, delegate |-> to, delegation_type |-> type,
     delegation_level |-> level, trust_amount |-> amount, is_active |-> TRUE,
     created_at |-> 0]

\* delegation chains with an origin wallet and an issuer, each delegating to v1 or not
Chains ==
    {[foundation |-> [address |-> FoundationAddress, is_active |-> TRUE],
      origin_wallets |-> [c \in {"US"} |->
          [trust_score |-> 9000, is_active |-> TRUE, delegation_capacity |-> RegisteredCapacity,
           active_delegations |->
              IF ow THEN <<Delegation("d1", "US", Address(1), "Trust", "Level2", 3)>> ELSE <<>>]],
      issuers |-> [i \in {"issuer1"} |->
          [trust_score |-> 4000, is_active |-> TRUE, delegation_capacity |-> RegisteredCapacity,
           active_delegations |->
              IF iss THEN <<Delegation("d2", "issuer1", Address(1), "KYC", "Level3", 5)>> ELSE <<>>]],
      individuals |-> NoEntities,
      delegation_graph |-> EmptyGraph]
     : ow \in BOOLEAN, iss \in BOOLEAN}

TrustedChain == CHOOSE c \in Chains :
    /\ Len(c.origin_wallets["US"].active_delegations) = 1
    /\ Len(c.issuers["issuer1"].active_delegations) = 0

ComplianceLevels == {"Basic", "Enhanced", "Institutional", "Government", "Military"}

Block(proposer, sigs, dilithium, txs, env) ==
    [header |-> [height |-> 0, proposer |-> proposer, validator_signatures |-> sigs,
                 dilithium_signature |-> dilithium],
     transactions |-> txs, environmental_data |-> env]

Scenario(entry, n, c, level, t, b) ==
    [validators |-> Registry(entry, n), active_validators |-> Roster(n), chain |-> c,
     wallet_level |-> level, now |-> t, block |-> b]

\* every proposer entry, roster size, proposer and signature list, with the
\* rest of the block sound or failing a later gate
QuorumScenarios ==
    {Scenario(entry, n, TrustedChain, "Basic", t, Block(p, sigs, rest[1], GoodTransactions, rest[2])) :
        entry \in ProposerEntries, n \in 0..MaxActive, t \in Clock,
        p \in {None, Some(Address(1))},
        sigs \in SignatureLists(0..MaxSigs),
        rest \in {<<"valid", None>>, <<"empty", None>>,
                  <<"valid", Some(EnvironmentalData(500, 4000, 0, 0))>>}}

\* rosters of 10 and 100 validators with one signature too few and just enough
LargeRosterScenarios ==
    {Scenario(Some(GoodValidator), n, TrustedChain, "Basic", t,
              Block(Some(Address(1)), SignatureList(k, "valid"), "valid", GoodTransactions, None)) :
        n \in {10, 100}, t \in Clock,
        k \in {required_signatures(10) - 1, required_signatures(10),
               required_signatures(100) - 1, required_signatures(100)}}

\* signatures by the listed signers, all valid
SignaturesBy(ids) == [i \in 1..Len(ids) |-> ValidatorSignature(ids[i], "valid")]

\* a full roster and a sound block whose signatures, as many as the quorum asks,
\* all bear the proposer's id, or the ids of validators outside the roster
RepeatedSignerScenarios ==
    {Scenario(Some(GoodValidator), MaxActive, TrustedChain, "Basic", t,
              Block(Some(Address(1)), SignaturesBy(ids), "valid", GoodTransactions, None)) :
        t \in Clock,
        ids \in {[i \in 1..required_signatures(MaxActive) |-> Address(1)],
                 [i \in 1..required_signatures(MaxActive) |-> Address(MaxActive + i)]}}

\* an eligible proposer with a quorum, and every later gate's inputs varied
PipelineScenariosAt(t) ==
    {Scenario(Some(GoodValidator), n, c, "Basic", t,
              Block(Some(Address(1)), SignatureList(required_signatures(n), last), dil,
                    TransactionList(k, "Standard", bytes), env)) :
        n \in {1, MaxActive}, c \in Chains, last \in SignatureKinds,
        dil \in SignatureKinds, k \in 0..1, bytes \in SignatureKinds,
        env \in EnvironmentalCases(t)}

PipelineScenarios == UNION {PipelineScenariosAt(t) : t \in Clock}

\* every compliance level of the proposer's origin wallet against every kind of transaction
ComplianceScenarios ==
    {Scenario(Some(GoodValidator), 1, TrustedChain, level, t,
              Block(Some(Address(1)), SignatureList(1, "valid"), "valid",
                    TransactionList(k, kind, bytes), None)) :
        level \in ComplianceLevels, t \in Clock, k \in 0..MaxTx,
        kind \in TransactionKinds, bytes \in SignatureKinds}

\* no call of the delegation chain has returned yet
NoCall == [op |-> "none", args |-> <<>>, ret |-> "none"]

\* calculate_block_rewards has not been called
NoRewards == [pc |-> "idle"]

\* the engine holds no ComplianceManager and no BridgeOracle
NoComplianceManager == [layers |-> <<>>, origin_wallets |-> <<>>, active_rules |-> <<>>,
                        compliance_cache |-> <<>>]

NoBridgeOracle == [validators |-> <<>>, mainnet_vault |-> "", privacy_mint |-> "",
                   params |-> [multisig_threshold |-> 0, required_confirmations |-> 0]]

Scenarios ==
    QuorumScenarios \cup LargeRosterScenarios \cup RepeatedSignerScenarios
        \cup PipelineScenarios \cup ComplianceScenarios

Init ==
    /\ \E s \in Scenarios :
          /\ validators = s.validators
          /\ active_validators = s.active_validators
          /\ chain = s.chain
          /\ wallet_level = s.wallet_level
          /\ now = s.now
          /\ block = s.block
    /\ pc = "validator_signatures"
    /\ trace = <<>>
    /\ reason = "none"
    /\ result = "pending"
    /\ last_call = NoCall
    /\ issued = <<>>
    /\ revoked = {}
    /\ rewards = NoRewards
    /\ compliance_manager = NoComplianceManager
    /\ bridge_oracle = NoBridgeOracle
    /\ reward_config = DefaultTrustMultipliers

-----------------------------------------------------------------------------
(* validate_block: the gates in the order the engine calls them *)

\* the gates with the quantum-signature gate before the compliance gate
NextGate_QuantumFirst(g) ==
    CASE g = "validator_signatures" -> "trust_requirements"
      [] g = "trust_requirements" -> "environmental_data"
      [] g = "environmental_data" -> "quantum_signatures"
      [] g = "quantum_signatures" -> "origin_wallet_compliance"
      [] g = "origin_wallet_compliance" -> "accept"

NextGate(g) ==
    CASE g = "validator_signatures" -> "trust_requirements"
      [] g = "trust_requirements" -> "environmental_data"
      [] g = "environmental_data" -> "origin_wallet_compliance"
      [] g = "origin_wallet_compliance" -> "quantum_signatures"
      [] g = "quantum_signatures" -> "accept"

\* What validate_block does with the verdict r of gate g.
Proceed(g, r) ==
    /\ trace' = Append(trace, g)
    /\ IF r = "panic"
       THEN pc' = "done" /\ result' = "panic" /\ reason' = r
       ELSE IF r # "ok"
       THEN pc' = "done" /\ result' = "Ok(false)" /\ reason' = r
       ELSE IF NextGate(g) = "accept"
       THEN pc' = "done" /\ result' = "Ok(true)" /\ reason' = reason
       ELSE pc' = NextGate(g) /\ result' = result /\ reason' = reason
    /\ UNCHANGED <<validators, active_validators, chain, wallet_level, now, block,
                   last_call, issued, revoked, rewards,
                   compliance_manager, bridge_oracle, reward_config>>

ValidateValidatorSignatures ==
    /\ pc = "validator_signatures"
    /\ Proceed("validator_signatures", validate_validator_signatures(block))

ValidateTrustRequirements ==
    /\ pc = "trust_requirements"
    /\ Proceed("trust_requirements", validate_trust_requirements(block))

ValidateEnvironmentalData ==
    /\ pc = "environmental_data"
    /\ \E r \in validate_environmental_data(block, now) :
          Proceed("environmental_data", r)

ValidateOriginWalletCompliance ==
    /\ pc = "origin_wallet_compliance"
    /\ Proceed("origin_wallet_compliance", validate_origin_wallet_compliance(block))

ValidateQuantumSignatures ==
    /\ pc = "quantum_signatures"
    /\ Proceed("quantum_signatures", validate_quantum_signatures(block))

Next ==
    \/ ValidateValidatorSignatures
    \/ ValidateTrustRequirements
    \/ ValidateEnvironmentalData
    \/ ValidateOriginWalletCompliance
    \/ ValidateQuantumSignatures

Spec == Init /\ [][Next]_vars

-----------------------------------------------------------------------------
(* The delegation chain: its registered entities and the calls made on it *)

NFTCredential(owner, issuer, delegation_chain, trust, active) ==
    [owner |-> owner, issuer |-> issuer, delegation_chain |-> delegation_chain,
     trust_score |-> trust, is_active |-> active]

\* A chain with the Foundation, the origin wallet US, the issuer issuer1 and the
\* credential of alice; listed: the delegations to alice held in the delegators' lists.
TrustChain(f_active, w_active, i_active, c_active, c_issuer, listed) ==
    [foundation |-> [address |-> FoundationAddress, is_active |-> f_active],
     origin_wallets |-> [c \in {"US"} |->
         [trust_score |-> 9000, is_active |-> w_active,
          delegation_capacity |-> RegisteredCapacity,
          active_delegations |->
             IF "US" \in listed
             THEN <<Delegation("d1", "US", "alice", "Trust", "Level2", 3)>> ELSE <<>>]],
     issuers |-> [i \in {"issuer1"} |->
         [trust_score |-> 4000, is_active |-> i_active,
          delegation_capacity |-> RegisteredCapacity,
          active_delegations |->
             IF "issuer1" \in listed
             THEN <<Delegation("d2", "issuer1", "alice", "KYC", "Level3", 5)>> ELSE <<>>]],
     individuals |-> [o \in {"alice"} |->
         NFTCredential("alice", c_issuer,
                       <<FoundationAddress, "US", "issuer1">>, 8000, c_active)],
     delegation_graph |-> EmptyGraph]

\* the chain with other trust scores of the origin wallet and the issuer
WithTrustScores(c, wallet_trust, issuer_trust) ==
    [c EXCEPT !.origin_wallets["US"].trust_score = wallet_trust,
              !.issuers["issuer1"].trust_score = issuer_trust]

TrustChains ==
    {TrustChain(TRUE, TRUE, TRUE, TRUE, "issuer1", listed) :
        listed \in {{}, {"US", "issuer1"}}}
    \cup {TrustChain(FALSE, TRUE, TRUE, TRUE, "issuer1", {}),
          TrustChain(TRUE, FALSE, TRUE, TRUE, "issuer1", {}),
          TrustChain(TRUE, TRUE, FALSE, TRUE, "issuer1", {}),
          TrustChain(TRUE, TRUE, TRUE, FALSE, "issuer1", {}),
          TrustChain(TRUE, TRUE, TRUE, TRUE, "issuer2", {})}
    \cup {WithTrustScores(TrustChain(TRUE, TRUE, TRUE, TRUE, "issuer1", {}), 2500, 5000)}

\* arguments of create_delegation: a delegator of each kind delegating to alice,
\* alice delegating back to the origin wallet, the origin wallet delegating to itself
DelegationInputs ==
    {[delegator |-> FoundationAddress, delegate |-> "alice", delegation_type |-> "Governance"],
     [delegator |-> "US", delegate |-> "alice", delegation_type |-> "Trust"],
     [delegator |-> "issuer1", delegate |-> "alice", delegation_type |-> "KYC"],
     [delegator |-> "alice", delegate |-> "US", delegation_type |-> "Economic"],
     [delegator |-> "US", delegate |-> "US", delegation_type |-> "Trust"]}
\* amounts: two of the first exceed a registered capacity, the second exceeds the
\* capacity has_sufficient_trust_capacity reads
TrustAmounts == {RegisteredCapacity - 400, StubCapacity + 1}

\* the ids create_delegation has handed out
IssuedIds == {issued[i].delegation_id : i \in 1..Len(issued)}

\* arguments of revoke_delegation
RevocableIds == IssuedIds \cup {"delegation_unknown"}

\* arguments of calculate_trust_score
ScoredEntities == {FoundationAddress, "US", "issuer1", "alice", "nobody"}

\* arguments of verify_chain: the credential of alice presented with several chains,
\* and a credential whose owner holds none
DelegationChainInputs ==
    {<<FoundationAddress, "US">>,
     <<FoundationAddress, "US", "issuer1">>,
     <<FoundationAddress, "US", "issuer1", "alice">>,
     <<"zpc1other", "US", "issuer1">>,
     <<"US", "US", "issuer1">>,
     <<FoundationAddress, "XX", "issuer1">>,
     <<FoundationAddress, "US", "issuer2">>}

CredentialInputs ==
    {[chain.individuals["alice"] EXCEPT !.delegation_chain = dc] : dc \in DelegationChainInputs}
    \cup {NFTCredential("bob", "issuer1", <<FoundationAddress, "US", "issuer1">>, 8000, TRUE)}

\* the engine state the delegation chain runs beside: one block, not being validated
IdleScenario == CHOOSE s \in QuorumScenarios : TRUE

InitTrust ==
    /\ chain \in TrustChains
    /\ validators = IdleScenario.validators
    /\ active_validators = IdleScenario.active_validators
    /\ wallet_level = IdleScenario.wallet_level
    /\ now = IdleScenario.now
    /\ block = IdleScenario.block
    /\ pc = "done"
    /\ trace = <<>>
    /\ reason = "none"
    /\ result = "pending"
    /\ last_call = NoCall
    /\ issued = <<>>
    /\ revoked = {}
    /\ rewards = NoRewards
    /\ compliance_manager = NoComplianceManager
    /\ bridge_oracle = NoBridgeOracle
    /\ reward_config = DefaultTrustMultipliers

CreateDelegation ==
    /\ Len(issued) < MaxDelegations
    /\ \E input \in DelegationInputs, trust_amount \in TrustAmounts :
          LET r == create_delegation(chain, generate_delegation_id(Len(issued) + 1),
                                     input.delegator, input.delegate, input.delegation_type,
                                     trust_amount, now)
          IN /\ chain' = r.chain
             /\ issued' = IF r.ret.kind = "Ok" THEN Append(issued, r.ret.value) ELSE issued
             /\ last_call' = [op |-> "create_delegation",
                              args |-> <<input.delegator, input.delegate, input.delegation_type,
                                         trust_amount>>,
                              ret |-> r.ret]
    /\ UNCHANGED <<validators, active_validators, wallet_level, now, block,
                   pc, trace, reason, result, revoked, rewards,
                   compliance_manager, bridge_oracle, reward_config>>

RevokeDelegation ==
    /\ \E delegation_id \in RevocableIds, revocation_reason \in {"compromised"} :
          LET r == revoke_delegation(chain, delegation_id, revocation_reason)
          IN /\ chain' = r.chain
             /\ revoked' = revoked \cup ({delegation_id} \cap IssuedIds)
             /\ last_call' = [op |-> "revoke_delegation",
                              args |-> <<delegation_id, revocation_reason>>,
                              ret |-> r.ret,
                              again |-> delegation_id \in revoked]
    /\ UNCHANGED <<validators, active_validators, wallet_level, now, block,
                   pc, trace, reason, result, issued, rewards,
                   compliance_manager, bridge_oracle, reward_config>>

CalculateTrustScore ==
    /\ \E entity_id \in ScoredEntities :
          last_call' = [op |-> "calculate_trust_score", args |-> <<entity_id>>,
                        ret |-> Ok(chain_trust_score(chain, entity_id))]
    /\ UNCHANGED <<validators, active_validators, chain, wallet_level, now, block,
                   pc, trace, reason, result, issued, revoked, rewards,
                   compliance_manager, bridge_oracle, reward_config>>

VerifyChain ==
    /\ \E credential \in CredentialInputs :
          last_call' = [op |-> "verify_chain", args |-> <<credential>>,
                        ret |-> Ok(verify_chain(chain, credential))]
    /\ UNCHANGED <<validators, active_validators, chain, wallet_level, now, block,
                   pc, trace, reason, result, issued, revoked, rewards,
                   compliance_manager, bridge_oracle, reward_config>>

NextTrust ==
    \/ CreateDelegation
    \/ RevokeDelegation
    \/ CalculateTrustScore
    \/ VerifyChain

SpecTrust == InitTrust /\ [][NextTrust]_vars

-----------------------------------------------------------------------------
(* The blocks calculate_block_rewards is run on *)

\* heights below, at and past the thresholds of the halving schedule
Heights == {0, 209999, 210000, 420000}

\* environmental data that passes validate_environmental_data, or none
RewardEnvironments ==
    {None} \cup
    {Some(EnvironmentalData(cf, re, ScoreOf(cf, re), t)) :
        cf \in {0, 1, 2, 500}, re \in {0, 2500, 4000, 10000}, t \in Clock}

RewardBlocks ==
    {[Block(proposer, SignatureList(1, "valid"), "valid", <<>>, env)
         EXCEPT !.header.height = height] :
        proposer \in {None, Some(Address(1))}, env \in RewardEnvironments,
        height \in Heights}

InitRewards ==
    /\ block \in RewardBlocks
    /\ validators = IdleScenario.validators
    /\ active_validators = IdleScenario.active_validators
    /\ chain = IdleScenario.chain
    /\ wallet_level = IdleScenario.wallet_level
    /\ now = IdleScenario.now
    /\ pc = "done"
    /\ trace = <<>>
    /\ reason = "none"
    /\ result = "pending"
    /\ last_call = NoCall
    /\ issued = <<>>
    /\ revoked = {}
    /\ rewards = [pc |-> "trust_multiplier", base_reward |-> BlockReward]
    /\ compliance_manager = NoComplianceManager
    /\ bridge_oracle = NoBridgeOracle
    /\ reward_config = DefaultTrustMultipliers

\* calculate_block_rewards, one statement at a time
RewardStep(next) ==
    /\ rewards' = next
    /\ UNCHANGED <<validators, active_validators, chain, wallet_level, now, block,
                   pc, trace, reason, result, last_call, issued, revoked,
                   compliance_manager, bridge_oracle, reward_config>>

CalculateTrustMultiplier ==
    /\ rewards.pc = "trust_multiplier"
    /\ RewardStep([pc |-> "environmental_bonus", base_reward |-> rewards.base_reward,
                   trust_multiplier |-> calculate_trust_multiplier(block)])

CalculateEnvironmentalBonus ==
    /\ rewards.pc = "environmental_bonus"
    /\ RewardStep([pc |-> "total_reward", base_reward |-> rewards.base_reward,
                   trust_multiplier |-> rewards.trust_multiplier,
                   environmental_bonus |-> calculate_environmental_bonus(block)])

CalculateTotalReward ==
    /\ rewards.pc = "total_reward"
    /\ RewardStep([pc |-> "distribution",
                   total_reward |-> TotalReward(rewards.base_reward, rewards.trust_multiplier,
                                                rewards.environmental_bonus)])

ReturnRewardDistribution ==
    /\ rewards.pc = "distribution"
    /\ RewardStep([pc |-> "done", total_reward |-> rewards.total_reward,
                   distribution |-> RewardDistribution(rewards.total_reward)])

NextRewards ==
    \/ CalculateTrustMultiplier
    \/ CalculateEnvironmentalBonus
    \/ CalculateTotalReward
    \/ ReturnRewardDistribution

SpecRewards == InitRewards /\ [][NextRewards]_vars

-----------------------------------------------------------------------------
(* The compliance manager (clients/blockchain-core/compliance/mod.rs)      *)
(* Compliance scores are fixed point in 1/Scale.  String lists are         *)
(* sequences; Operation.data_fields is modelled by its set of keys.        *)

LayerTypes == {"Mainnet", "TrustLayer", "EdgeLayer", "MeshLayer"}

\* ComplianceLayer without regulatory_rules, which no check reads
ComplianceLayer(kyc, wallet, privacy, restrictions) ==
    [kyc_required |-> kyc, origin_wallet_required |-> wallet, privacy_level |-> privacy,
     geographic_restrictions |-> restrictions]

\* initialize_default_layers
DefaultLayers ==
    [l \in LayerTypes |->
        CASE l = "Mainnet" -> ComplianceLayer(TRUE, TRUE, "SemiPrivate", <<>>)
          [] l = "TrustLayer" -> ComplianceLayer(TRUE, FALSE, "Private", <<>>)
          [] l = "EdgeLayer" -> ComplianceLayer(FALSE, FALSE, "Anonymous", <<>>)
          [] l = "MeshLayer" -> ComplianceLayer(FALSE, FALSE, "SemiPrivate", <<>>)]

\* ComplianceManager::new
NewComplianceManager ==
    [layers |-> DefaultLayers, origin_wallets |-> <<>>, active_rules |-> <<>>,
     compliance_cache |-> <<>>]

\* seconds until an origin wallet is verified again: 365 * 24 * 60 * 60
VerificationPeriod == 31536000

\* the ComplianceStatus check_compliance starts from
CompliantStatus ==
    [is_compliant |-> TRUE, compliance_score |-> Scale, missing_requirements |-> <<>>,
     warnings |-> <<>>, errors |-> <<>>, recommendations |-> <<>>]

Missing(status, text, penalty) ==
    [status EXCEPT !.is_compliant = FALSE,
                   !.missing_requirements = Append(@, text),
                   !.compliance_score = @ - penalty]

Failure(status, text, penalty) ==
    [status EXCEPT !.is_compliant = FALSE,
                   !.errors = Append(@, text),
                   !.compliance_score = @ - penalty]

Warning(status, text, penalty) ==
    [status EXCEPT !.warnings = Append(@, text), !.compliance_score = @ - penalty]

\* format!("{}_{}", operation.id, layer_type)
CacheKey(operation, layer_type) == operation.id \o "_" \o layer_type

has_data_field(operation, field_name) == field_name \in operation.data_fields

\* every ValidationType arm returns true
validate_field(operation, rule) == TRUE

requirement_satisfied(operation, requirement) ==
    /\ \A i \in 1..Len(requirement.data_required) :
          requirement.data_required[i].is_required
             => has_data_field(operation, requirement.data_required[i].field_name)
    /\ \A i \in 1..Len(requirement.validation_rules) :
          validate_field(operation, requirement.validation_rules[i])

is_privacy_level_compliant(operation, required_level) ==
    CASE required_level = "Public" -> TRUE
      [] required_level = "SemiPrivate" -> operation.privacy_level \in {"Public", "SemiPrivate"}
      [] required_level = "Private" -> operation.privacy_level \in {"Private", "Anonymous"}
      [] required_level = "Anonymous" -> operation.privacy_level = "Anonymous"

check_layer_compliance(operation, layer, status) ==
    LET kyc == IF layer.kyc_required /\ ~operation.has_kyc
               THEN Missing(status, "KYC verification required", 3000)
               ELSE status
        wallet == IF layer.origin_wallet_required /\ ~operation.has_origin_wallet
                  THEN Missing(kyc, "Origin wallet verification required", 2000)
                  ELSE kyc
    IN IF ~is_privacy_level_compliant(operation, layer.privacy_level)
       THEN Warning(wallet, "Operation may not meet privacy requirements", 1000)
       ELSE wallet

\* one requirement of a rule that the operation does not satisfy
Enforce(level, requirement, status) ==
    CASE level = "Critical" ->
            Failure(status, "Critical compliance failure: " \o requirement.description, 5000)
      [] level = "Blocking" ->
            Failure(status, "Blocking compliance failure: " \o requirement.description, 4000)
      [] level = "Mandatory" ->
            Failure(status, "Mandatory compliance failure: " \o requirement.description, 3000)
      [] level = "Advisory" ->
            Warning(status, "Advisory compliance issue: " \o requirement.description, 1000)

RECURSIVE CheckRequirements(_, _, _, _)
\* the inner loop of check_regulatory_compliance, from requirement k on
CheckRequirements(operation, rule, k, status) ==
    IF k > Len(rule.requirements)
    THEN status
    ELSE CheckRequirements(operation, rule, k + 1,
             IF ~requirement_satisfied(operation, rule.requirements[k])
             THEN Enforce(rule.enforcement_level, rule.requirements[k], status)
             ELSE status)

RECURSIVE CheckRules(_, _, _, _)
\* the outer loop of check_regulatory_compliance, from rule k on
CheckRules(operation, rules, k, status) ==
    IF k > Len(rules)
    THEN status
    ELSE CheckRules(operation, rules, k + 1,
                    CheckRequirements(operation, rules[k], 1, status))

check_regulatory_compliance(active_rules, operation, status) ==
    CheckRules(operation, active_rules, 1, status)

RECURSIVE CheckSpecial(_, _, _, _)
\* RestrictionType::Special: the special requirements from k on
CheckSpecial(operation, requirements, k, status) ==
    IF k > Len(requirements)
    THEN status
    ELSE CheckSpecial(operation, requirements, k + 1,
             IF ~requirement_satisfied(operation, requirements[k])
             THEN Warning(status,
                          "Special requirement not met: " \o requirements[k].description, 1000)
             ELSE status)

\* one restriction naming the operation's country
Restrict(operation, restriction, status) ==
    CASE restriction.restriction_type = "Blocked" ->
            IF operation.operation_type \in restriction.blocked_operations
            THEN Failure(status, "Operation blocked in " \o restriction.country_code, 5000)
            ELSE status
      [] restriction.restriction_type = "Restricted" ->
            IF operation.operation_type \in restriction.blocked_operations
            THEN Warning(status, "Operation restricted in " \o restriction.country_code, 2000)
            ELSE status
      [] restriction.restriction_type = "Special" ->
            CheckSpecial(operation, restriction.special_requirements, 1, status)
      [] restriction.restriction_type = "Allowed" -> status

RECURSIVE CheckRestrictions(_, _, _, _)
CheckRestrictions(operation, restrictions, k, status) ==
    IF k > Len(restrictions)
    THEN status
    ELSE CheckRestrictions(operation, restrictions, k + 1,
             IF restrictions[k].country_code = operation.country_code
             THEN Restrict(operation, restrictions[k], status)
             ELSE status)

check_geographic_compliance(operation, layer, status) ==
    CheckRestrictions(operation, layer.geographic_restrictions, 1, status)

check_origin_wallet_compliance(origin_wallets, operation, status, current_time) ==
    IF operation.country_code \in DOMAIN origin_wallets
    THEN LET origin_wallet == origin_wallets[operation.country_code]
             verified == IF current_time > origin_wallet.next_verification
                         THEN Warning(status, "Origin wallet requires re-verification", 1000)
                         ELSE status
             high_value == operation.operation_type = "HighValue"
             cross_border == operation.operation_type = "CrossBorder"
         IN CASE origin_wallet.compliance_level = "Government" -> verified
              [] origin_wallet.compliance_level = "Institutional" ->
                    IF high_value
                    THEN Warning(verified,
                           "High-value operation may require government-level compliance", 1000)
                    ELSE verified
              [] origin_wallet.compliance_level = "Enhanced" ->
                    IF high_value \/ cross_border
                    THEN Warning(verified,
                           "Operation may require institutional-level compliance", 1000)
                    ELSE verified
              [] origin_wallet.compliance_level = "Basic" ->
                    IF high_value \/ cross_border
                    THEN Failure(verified,
                           "Operation requires enhanced compliance level", 3000)
                    ELSE verified
    ELSE Failure(status, "No origin wallet found for country", 4000)

\* the status check_compliance computes when the cache does not answer
ComputeStatus(m, operation, layer, current_time) ==
    LET layered == check_layer_compliance(operation, layer, CompliantStatus)
        regulated == check_regulatory_compliance(m.active_rules, operation, layered)
        located == check_geographic_compliance(operation, layer, regulated)
    IN IF layer.origin_wallet_required
       THEN check_origin_wallet_compliance(m.origin_wallets, operation, located, current_time)
       ELSE located

check_compliance(m, operation, layer_type, current_time) ==
    LET cache_key == CacheKey(operation, layer_type)
    IN IF cache_key \in DOMAIN m.compliance_cache
       THEN [manager |-> m, ret |-> Ok(m.compliance_cache[cache_key])]
       ELSE IF layer_type \notin DOMAIN m.layers
            THEN [manager |-> m, ret |-> Err("LayerNotFound")]
            ELSE LET status == ComputeStatus(m, operation, m.layers[layer_type], current_time)
                 IN [manager |-> [m EXCEPT !.compliance_cache = Insert(@, cache_key, status)],
                     ret |-> Ok(status)]

OriginWalletCompliance(country_code, wallet_address, compliance_level, t) ==
    [country_code |-> country_code, wallet_address |-> wallet_address,
     compliance_level |-> compliance_level, verified_requirements |-> <<>>,
     last_verification |-> t, next_verification |-> t + VerificationPeriod]

register_origin_wallet(m, country_code, wallet_address, compliance_level, t) ==
    [manager |-> [m EXCEPT !.origin_wallets =
                     Insert(@, country_code,
                            OriginWalletCompliance(country_code, wallet_address,
                                                   compliance_level, t))],
     ret |-> Ok("unit")]

\* update_compliance_rules without the cache.clear()
update_compliance_rules_KeepCache(m, rules) ==
    [manager |-> [m EXCEPT !.active_rules = rules], ret |-> Ok("unit")]

update_compliance_rules(m, rules) ==
    [manager |-> [m EXCEPT !.active_rules = rules, !.compliance_cache = <<>>],
     ret |-> Ok("unit")]

-----------------------------------------------------------------------------
(* The compliance manager under calls of its three public operations *)

DataField(field_name) == [field_name |-> field_name, is_required |-> TRUE]

ComplianceRequirement(requirement_id, description, fields) ==
    [requirement_id |-> requirement_id, description |-> description,
     data_required |-> fields, validation_rules |-> <<>>]

RegulatoryRule(rule_type, requirements, enforcement_level) ==
    [jurisdiction |-> "Global", rule_type |-> rule_type, requirements |-> requirements,
     enforcement_level |-> enforcement_level]

\* the AML rule and the service-provider rule of the default layers, as active rules
AMLRule ==
    RegulatoryRule("AML",
        <<ComplianceRequirement("aml_001", "Anti-Money Laundering checks",
              <<DataField("transaction_amount"), DataField("source_address")>>)>>,
        "Mandatory")

ServiceRule ==
    RegulatoryRule("ServiceProvider",
        <<ComplianceRequirement("service_001", "Service provider verification",
              <<DataField("service_type"), DataField("provider_location")>>)>>,
        "Advisory")

RuleSetInputs == {<<>>, <<AMLRule>>, <<ServiceRule>>}

Operation(id, operation_type, country_code, has_kyc, has_origin_wallet, privacy, fields) ==
    [id |-> id, operation_type |-> operation_type, country_code |-> country_code,
     has_kyc |-> has_kyc, has_origin_wallet |-> has_origin_wallet,
     privacy_level |-> privacy, data_fields |-> fields]

\* two operations share the id op1
OperationInputs ==
    {Operation("op1", "Transaction", "US", TRUE, TRUE, "SemiPrivate",
               {"transaction_amount", "source_address"}),
     Operation("op1", "HighValue", "US", TRUE, TRUE, "SemiPrivate", {}),
     Operation("op2", "CrossBorder", "FR", FALSE, FALSE, "Anonymous", {"service_type"})}

LayerInputs == {"Mainnet", "EdgeLayer"}

WalletInputs ==
    {[country_code |-> "US", wallet_address |-> "zpc1us", compliance_level |-> l] :
        l \in {"Basic", "Government"}}

InitCompliance ==
    /\ compliance_manager = NewComplianceManager
    /\ bridge_oracle = NoBridgeOracle
    /\ reward_config = DefaultTrustMultipliers
    /\ chain = IdleScenario.chain
    /\ validators = IdleScenario.validators
    /\ active_validators = IdleScenario.active_validators
    /\ wallet_level = IdleScenario.wallet_level
    /\ now = IdleScenario.now
    /\ block = IdleScenario.block
    /\ pc = "done"
    /\ trace = <<>>
    /\ reason = "none"
    /\ result = "pending"
    /\ last_call = NoCall
    /\ issued = <<>>
    /\ revoked = {}
    /\ rewards = NoRewards

\* a call of the compliance manager: the new manager and the record of the call
ComplianceCall(op, args, r, cached) ==
    /\ compliance_manager' = r.manager
    /\ last_call' = [op |-> op, args |-> args, ret |-> r.ret, cached |-> cached]
    /\ UNCHANGED <<validators, active_validators, chain, wallet_level, now, block,
                   pc, trace, reason, result, issued, revoked, rewards,
                   bridge_oracle, reward_config>>

CheckCompliance ==
    \E operation \in OperationInputs, layer_type \in LayerInputs :
        ComplianceCall("check_compliance", <<operation, layer_type>>,
                       check_compliance(compliance_manager, operation, layer_type, now),
                       CacheKey(operation, layer_type)
                          \in DOMAIN compliance_manager.compliance_cache)

RegisterOriginWallet ==
    \E w \in WalletInputs :
        ComplianceCall("register_origin_wallet",
                       <<w.country_code, w.wallet_address, w.compliance_level>>,
                       register_origin_wallet(compliance_manager, w.country_code,
                                              w.wallet_address, w.compliance_level, now),
                       FALSE)

UpdateComplianceRules ==
    \E rules \in RuleSetInputs :
        ComplianceCall("update_compliance_rules", <<rules>>,
                       update_compliance_rules(compliance_manager, rules), FALSE)

NextCompliance ==
    \/ CheckCompliance
    \/ RegisterOriginWallet
    \/ UpdateComplianceRules

SpecCompliance == InitCompliance /\ [][NextCompliance]_vars

-----------------------------------------------------------------------------
(* The bridge oracle (clients/blockchain-core/src/bridge/oracle.rs)        *)
(* u128 amounts are only compared, so small naturals stand for them.       *)

Healthy(locked_mainnet, circulating_privacy) ==
    [status |-> "Healthy", locked_mainnet |-> locked_mainnet,
     circulating_privacy |-> circulating_privacy]

Violation(locked_mainnet, circulating_privacy) ==
    [status |-> "Violation", locked_mainnet |-> locked_mainnet,
     circulating_privacy |-> circulating_privacy]

verify_peg(locked_mainnet, circulating_privacy) ==
    IF locked_mainnet = circulating_privacy
    THEN Healthy(locked_mainnet, circulating_privacy)
    ELSE Violation(locked_mainnet, circulating_privacy)

verify_multisig(oracle, approvals) ==
    LET unique == {approvals[i] : i \in 1..Len(approvals)}
    IN IF Cardinality(unique) >= oracle.params.multisig_threshold
       THEN Ok("unit")
       ELSE Err("MultisigThresholdNotMet")

bridge_to_privacy(oracle, amount, locked_after, circulating_after, approvals, confirmations) ==
    IF amount = 0
    THEN Err("InvalidAmount")
    ELSE IF confirmations < oracle.params.required_confirmations
         THEN Err("InsufficientConfirmations")
         ELSE IF verify_multisig(oracle, approvals).kind = "Err"
              THEN verify_multisig(oracle, approvals)
              ELSE Ok(verify_peg(locked_after, circulating_after))

bridge_to_mainnet(oracle, amount, locked_after, circulating_after, approvals, confirmations) ==
    IF amount = 0
    THEN Err("InvalidAmount")
    ELSE IF confirmations < oracle.params.required_confirmations
         THEN Err("InsufficientConfirmations")
         ELSE IF verify_multisig(oracle, approvals).kind = "Err"
              THEN verify_multisig(oracle, approvals)
              ELSE Ok(verify_peg(locked_after, circulating_after))

-----------------------------------------------------------------------------
(* The bridge oracle under calls of its two bridging operations *)

BridgeOracle(multisig_threshold, required_confirmations) ==
    [validators |-> <<"v1", "v2", "v3">>, mainnet_vault |-> "zpc1vault",
     privacy_mint |-> "zpp1mint",
     params |-> [multisig_threshold |-> multisig_threshold,
                 required_confirmations |-> required_confirmations]]

OracleInputs == {BridgeOracle(2, 6), BridgeOracle(3, 6)}

AmountInputs == {0, 5}

ConfirmationInputs == {5, 6}

\* approvals: none, one, one repeated, two distinct, three distinct
ApprovalInputs ==
    {<<>>, <<"v1">>, <<"v1", "v1">>, <<"v1", "v2">>, <<"v1", "v1", "v1">>,
     <<"v1", "v2", "v3">>}

\* (mainnet_locked_after, privacy_circulating_after)
PegInputs == {<<100, 100>>, <<105, 100>>, <<100, 105>>}

InitBridge ==
    /\ bridge_oracle \in OracleInputs
    /\ compliance_manager = NoComplianceManager
    /\ reward_config = DefaultTrustMultipliers
    /\ chain = IdleScenario.chain
    /\ validators = IdleScenario.validators
    /\ active_validators = IdleScenario.active_validators
    /\ wallet_level = IdleScenario.wallet_level
    /\ now = IdleScenario.now
    /\ block = IdleScenario.block
    /\ pc = "done"
    /\ trace = <<>>
    /\ reason = "none"
    /\ result = "pending"
    /\ last_call = NoCall
    /\ issued = <<>>
    /\ revoked = {}
    /\ rewards = NoRewards

\* a call of the oracle (&self): only the record of the call changes
BridgeCall(op, args, ret) ==
    /\ last_call' = [op |-> op, args |-> args, ret |-> ret]
    /\ UNCHANGED <<validators, active_validators, chain, wallet_level, now, block,
                   pc, trace, reason, result, issued, revoked, rewards,
                   compliance_manager, bridge_oracle, reward_config>>

BridgeToPrivacy ==
    \E amount \in AmountInputs, confirmations \in ConfirmationInputs,
       approvals \in ApprovalInputs, peg \in PegInputs :
        BridgeCall("bridge_to_privacy", <<amount, peg[1], peg[2], approvals, confirmations>>,
                   bridge_to_privacy(bridge_oracle, amount, peg[1], peg[2], approvals,
                                     confirmations))

BridgeToMainnet ==
    \E amount \in AmountInputs, confirmations \in ConfirmationInputs,
       approvals \in ApprovalInputs, peg \in PegInputs :
        BridgeCall("bridge_to_mainnet", <<amount, peg[1], peg[2], approvals, confirmations>>,
                   bridge_to_mainnet(bridge_oracle, amount, peg[1], peg[2], approvals,
                                     confirmations))

NextBridge ==
    \/ BridgeToPrivacy
    \/ BridgeToMainnet

SpecBridge == InitBridge /\ [][NextBridge]_vars

-----------------------------------------------------------------------------
(* calculate_trust_multiplier as a function of the reward configuration and of the  *)
(* trust score calculate_trust_score returns for the proposer.  The engine's        *)
(* calculate_trust_score is a placeholder returning 0.8; here the score is an input *)
(* of the lookup, 0.8 among the values drawn.                                       *)

TrustThresholdEntry(min_trust, max_trust, multiplier) ==
    [min_trust |-> min_trust, max_trust |-> max_trust, multiplier |-> multiplier]

\* the default buckets, two buckets that overlap on [0.3, 0.6), one bucket with
\* nothing below 0.5 and nothing from 0.8
TrustMultiplierInputs ==
    {DefaultTrustMultipliers,
     [base_multiplier |-> BaseMultiplier,
      trust_thresholds |-> <<TrustThresholdEntry(0, 6000, Literal(12, 10)),
                             TrustThresholdEntry(3000, Scale, Literal(15, 10))>>],
     [base_multiplier |-> BaseMultiplier,
      trust_thresholds |-> <<TrustThresholdEntry(5000, 8000, Literal(15, 10))>>]}

\* steps between the trust scores drawn
TrustScoreStep == 250

\* trust scores over [0, 1] and the scores just below each default bucket edge
TrustScoreInputs ==
    {k * TrustScoreStep : k \in 0..(Scale \div TrustScoreStep)}
        \cup {2999, 5999, 7999, 9999, StubTrustScore, Scale}

InitMultiplier ==
    /\ reward_config \in TrustMultiplierInputs
    /\ compliance_manager = NoComplianceManager
    /\ bridge_oracle = NoBridgeOracle
    /\ chain = IdleScenario.chain
    /\ validators = IdleScenario.validators
    /\ active_validators = IdleScenario.active_validators
    /\ wallet_level = IdleScenario.wallet_level
    /\ now = IdleScenario.now
    /\ block = IdleScenario.block
    /\ pc = "done"
    /\ trace = <<>>
    /\ reason = "none"
    /\ result = "pending"
    /\ last_call = NoCall
    /\ issued = <<>>
    /\ revoked = {}
    /\ rewards = NoRewards

\* a call of calculate_trust_multiplier (&self): only the record of the call changes
MultiplierCall(proposer, trust_score, ret) ==
    /\ last_call' = [op |-> "calculate_trust_multiplier", args |-> <<proposer, trust_score>>,
                     ret |-> ret]
    /\ UNCHANGED <<validators, active_validators, chain, wallet_level, now, block,
                   pc, trace, reason, result, issued, revoked, rewards,
                   compliance_manager, bridge_oracle, reward_config>>

\* a block with a proposer whose trust score is trust_score
MultiplierOfProposer ==
    \E trust_score \in TrustScoreInputs :
        MultiplierCall(Some(Address(1)), Some(trust_score),
                       Ok(TrustMultiplierFor(reward_config, trust_score)))

\* a block without a proposer: no trust score is computed
MultiplierWithoutProposer ==
    MultiplierCall(None, None, Ok(reward_config.base_multiplier))

NextMultiplier ==
    \/ MultiplierOfProposer
    \/ MultiplierWithoutProposer

SpecMultiplier == InitMultiplier /\ [][NextMultiplier]_vars

-----------------------------------------------------------------------------
(* Vocabulary of the properties *)

IsPrefix(s, t) == Len(s) <= Len(t) /\ \A i \in 1..Len(s) : s[i] = t[i]

Done == pc = "done"

Accepted == Done /\ result = "Ok(true)"

Rejected == Done /\ result = "Ok(false)"

Evaluated(g) == Contains(trace, g)

RejectedBy(g) == Rejected /\ trace # <<>> /\ trace[Len(trace)] = g

\* the verdicts gate g can give on the block under validation
Verdicts(g) ==
    CASE g = "validator_signatures" -> {validate_validator_signatures(block)}
      [] g = "trust_requirements" -> {validate_trust_requirements(block)}
      [] g = "environmental_data" -> validate_environmental_data(block, now)
      [] g = "origin_wallet_compliance" -> {validate_origin_wallet_compliance(block)}
      [] g = "quantum_signatures" -> {validate_quantum_signatures(block)}

\* validate_block walks the gates in the given order, stops at the first gate
\* that returns false, and accepts exactly when the last gate has passed
ShortCircuitsInOrder(order) ==
    /\ IsPrefix(trace, order)
    /\ \A i \in 1..Len(trace) : i < Len(trace) => "ok" \in Verdicts(trace[i])
    /\ (trace # <<>> /\ Verdicts(trace[Len(trace)]) \cap {"ok", "panic"} = {}) => Rejected
    /\ Rejected => /\ trace # <<>>
                   /\ reason \in Verdicts(trace[Len(trace)]) \ {"ok", "panic"}
    /\ Accepted => trace = order /\ \A i \in 1..Len(order) : "ok" \in Verdicts(order[i])
    /\ (trace = order /\ Verdicts(order[Len(order)]) = {"ok"}) => Accepted
    /\ ~Done => result = "pending"

HasProposer == IsSome(block.header.proposer)

Proposer == Unwrap(block.header.proposer)

Signatures == block.header.validator_signatures

\* section 4.1: is_eligible, for a proposer on the active roster
EligibleProposer ==
    /\ HasProposer
    /\ \E i \in 1..Len(active_validators) : active_validators[i] = Proposer
    /\ Proposer \in DOMAIN validators
    /\ validators[Proposer].stake >= StakeThreshold
    /\ validators[Proposer].trust_score >= TrustThreshold
    /\ validators[Proposer].is_active

\* ceil(n * (2/3 + 1/100)): the least r with r >= n * 203/300
CeilOfThreshold(n) ==
    CHOOSE r \in 0..n : 300 * r >= 203 * n /\ (r = 0 \/ 300 * (r - 1) < 203 * n)

ListedRequired == (1 :> 1) @@ (2 :> 2) @@ (3 :> 3) @@ (4 :> 3) @@ (10 :> 7) @@ (100 :> 68)

Quorum ==
    LET n == Len(active_validators)
    IN IF n \in DOMAIN ListedRequired THEN ListedRequired[n] ELSE CeilOfThreshold(n)

\* signature verification of section 4.2: only bytes that are a signature verify
Verifies(bytes) == bytes = "valid"

TransactionSignatures ==
    {block.transactions[i].signature.dilithium_signature : i \in 1..Len(block.transactions)}

ValidatorSignatureBytes == {Signatures[i].signature : i \in 1..Len(Signatures)}

-----------------------------------------------------------------------------
(* C1 *)

SpecGateOrder ==
    <<"validator_signatures", "trust_requirements", "environmental_data",
      "quantum_signatures", "origin_wallet_compliance">>

CodeGateOrder ==
    <<"validator_signatures", "trust_requirements", "environmental_data",
      "origin_wallet_compliance", "quantum_signatures">>

\* C1 as stated: the gates are evaluated in the order proposer and quorum, trust,
\* environmental, quantum signature, compliance; the first gate that fails
\* rejects the block with no later gate evaluated, and the block is accepted only
\* if all five pass.
C1_GatesInSpecOrder == ShortCircuitsInOrder(SpecGateOrder)

\* C1 amended: the same with the compliance gate fourth and the quantum-signature
\* gate fifth.
C1_GatesInCodeOrder == ShortCircuitsInOrder(CodeGateOrder)

\* a block rejected by the quantum-signature gate after the compliance gate ran
C1_Witness ==
    /\ RejectedBy("quantum_signatures")
    /\ trace = CodeGateOrder
    /\ reason = "empty_header_signature"

-----------------------------------------------------------------------------
(* C2 *)

\* C2: with N active validators the quorum is ceil(N * (2/3 + 0.01)), that is
\* 1, 2, 3, 3, 7, 68 for N = 1, 2, 3, 4, 10, 100; a block with fewer attached
\* signatures is rejected by gate 1, and a block of an eligible proposer is
\* rejected for its signature count only then.
C2_RequiredSignatures ==
    /\ Quorum = CeilOfThreshold(Len(active_validators))
    /\ Evaluated("validator_signatures") =>
          /\ Len(Signatures) < Quorum => RejectedBy("validator_signatures")
          /\ EligibleProposer =>
                (reason = "insufficient_signatures" <=> Len(Signatures) < Quorum)

\* 67 signatures of 100 active validators are one too few
C2_Witness ==
    /\ Len(active_validators) = 100
    /\ Len(Signatures) = 67
    /\ EligibleProposer
    /\ RejectedBy("validator_signatures")
    /\ reason = "insufficient_signatures"

-----------------------------------------------------------------------------
(* C3 *)

\* C3: a block whose proposer is not on the active roster, is not registered, has
\* stake below stake_threshold, trust score below trust_threshold, or is
\* inactive, is rejected by gate 1 however many valid signatures it carries.
C3_IneligibleProposerRejected ==
    (Evaluated("validator_signatures") /\ HasProposer /\ ~EligibleProposer)
        => RejectedBy("validator_signatures")

\* a proposer one unit short of the stake threshold, with a full set of valid signatures
C3_Witness ==
    /\ HasProposer
    /\ Proposer \in DOMAIN validators
    /\ validators[Proposer].stake < StakeThreshold
    /\ Len(Signatures) >= Quorum
    /\ Len(Signatures) >= 1
    /\ \A b \in ValidatorSignatureBytes : Verifies(b)
    /\ RejectedBy("validator_signatures")
    /\ reason = "insufficient_stake"

-----------------------------------------------------------------------------
(* C4 *)

\* C4: a block is accepted only if every validator signature attached to the
\* header and every transaction signature verifies, even when the number of
\* attached signatures meets the quorum.
C4_EverySignatureVerified ==
    Accepted => \A b \in ValidatorSignatureBytes \cup TransactionSignatures : Verifies(b)

-----------------------------------------------------------------------------
(* C5 *)

\* C5: a block with a zero-byte validator signature, header quantum signature
\* or transaction quantum signature is never accepted.
C5_EmptySignatureRejected ==
    Accepted =>
        "empty" \notin ValidatorSignatureBytes \cup TransactionSignatures
                          \cup {block.header.dilithium_signature}

-----------------------------------------------------------------------------
(* C6 *)

\* C6: validate_block on a block without a proposer ends with an error (Err),
\* not with the plain reject Ok(false).
C6_MissingProposerIsError ==
    (Done /\ ~HasProposer) => result = "Err"

-----------------------------------------------------------------------------
(* C7 *)

\* C7: a block is accepted only if the trust score of its proposer, computed
\* from the proposer's incoming delegations, reaches trust_threshold.
C7_DelegatedTrustGate ==
    Accepted => chain_trust_score(chain, Proposer) >= TrustThreshold

-----------------------------------------------------------------------------
(* C8 *)

ForbiddenAt(level) ==
    CASE level = "Basic" -> {"HighValue", "CrossBorder", "Governance"}
      [] level = "Enhanced" -> {"HighValue", "CrossBorder"}
      [] level = "Institutional" -> {"HighValue"}
      [] level = "Government" -> {}
      [] level = "Military" -> {}

\* C8: a block is accepted only if none of its transactions is an operation
\* forbidden at the compliance level of the proposer's origin wallet.
C8_ComplianceLevelGate ==
    Accepted =>
        \A i \in 1..Len(block.transactions) :
            block.transactions[i].kind \notin ForbiddenAt(wallet_level)

-----------------------------------------------------------------------------
(* C9 *)

ArithmeticReasons == {"carbon_out_of_range", "renewable_out_of_range", "score_mismatch"}

\* twice the distance of the declared score from
\* ((1 - min(carbon_footprint/1000, 1)) + renewable_energy_usage) / 2
TwiceScoreError(env) ==
    LET capped == IF env.carbon_footprint * Scale >= 1000 * Scale
                  THEN Scale ELSE (env.carbon_footprint * Scale) \div 1000
        d == (Scale - capped) + env.renewable_energy_usage - 2 * env.environmental_score
    IN IF d < 0 THEN 0 - d ELSE d

ArithmeticSound(env) ==
    /\ 0 <= env.carbon_footprint /\ env.carbon_footprint <= 1000
    /\ 0 <= env.renewable_energy_usage /\ env.renewable_energy_usage <= Scale
    /\ TwiceScoreError(env) <= 2 * (Scale \div 100)

\* C9: the environmental gate rejects a block for its arithmetic exactly when
\* carbon_footprint is outside [0,1000], renewable_energy_usage is outside [0,1]
\* or the declared score is more than 0.01 away from the recomputed one (so
\* {500, 0.4, 0.45} passes); a block without environmental data passes the gate.
C9_EnvironmentalArithmetic ==
    Evaluated("environmental_data") =>
        IF IsSome(block.environmental_data)
        THEN LET env == Unwrap(block.environmental_data) IN
             /\ (RejectedBy("environmental_data") /\ reason \in ArithmeticReasons)
                    <=> ~ArithmeticSound(env)
             /\ (env.carbon_footprint = 500 /\ env.renewable_energy_usage = (4 * Scale) \div 10
                 /\ env.environmental_score = (45 * Scale) \div 100)
                    => reason \notin ArithmeticReasons
        ELSE ~RejectedBy("environmental_data") /\ result # "panic"

\* {carbon_footprint: 500, renewable_energy_usage: 0.4, environmental_score: 0.45},
\* fresh, has passed the environmental gate
C9_Witness ==
    /\ IsSome(block.environmental_data)
    /\ Unwrap(block.environmental_data).carbon_footprint = 500
    /\ Unwrap(block.environmental_data).renewable_energy_usage = 4000
    /\ Unwrap(block.environmental_data).environmental_score = 4500
    /\ Unwrap(block.environmental_data).last_updated = now
    /\ Evaluated("origin_wallet_compliance")

-----------------------------------------------------------------------------
(* C10 *)

\* C10: environmental data updated more than 3600 seconds before the validation
\* time is rejected by the environmental gate, and data updated at most 3600
\* seconds before the validation time is not rejected for staleness.
C10_FreshnessWindow ==
    (Evaluated("environmental_data") /\ IsSome(block.environmental_data)) =>
        LET env == Unwrap(block.environmental_data) IN
        /\ env.last_updated + 3600 < now => RejectedBy("environmental_data")
        /\ (env.last_updated + 3600 < now /\ ArithmeticSound(env)) => reason = "stale"
        /\ (env.last_updated <= now /\ now <= env.last_updated + 3600) => reason # "stale"

\* data that is 3601 seconds old is rejected as stale
C10_Witness ==
    /\ IsSome(block.environmental_data)
    /\ Unwrap(block.environmental_data).last_updated + 3601 = now
    /\ RejectedBy("environmental_data")
    /\ reason = "stale"

-----------------------------------------------------------------------------
(* Vocabulary of the properties of the delegation chain *)

Called(op) == last_call.op = op

ListedDelegations ==
    LET all == AllDelegations(chain.origin_wallets, DOMAIN chain.origin_wallets)
                  \o AllDelegations(chain.issuers, DOMAIN chain.issuers)
    IN {all[i] : i \in 1..Len(all)}

\* the delegations in force: held in a delegator's list or returned by
\* create_delegation, active and not revoked since
DelegationsInForce ==
    {d \in ListedDelegations \cup {issued[i] : i \in 1..Len(issued)} :
        d.is_active /\ d.delegation_id \notin revoked}

IncomingInForce(entity_id) == {d \in DelegationsInForce : d.delegate = entity_id}

OutgoingInForce(entity_id) == {d \in DelegationsInForce : d.delegator = entity_id}

RECURSIVE WeightedSums(_)
WeightedSums(ds) ==
    IF ds = {} THEN [total_trust |-> 0, weight_sum |-> 0]
    ELSE LET d == CHOOSE x \in ds : TRUE
             rest == WeightedSums(ds \ {d})
             w == TypeWeight(d.delegation_type) * LevelWeight(d.delegation_level)
                     * d.trust_amount
         IN [total_trust |-> rest.total_trust + get_entity_trust_score(chain, d.delegator) * w,
             weight_sum |-> rest.weight_sum + w]

RECURSIVE TotalAmount(_)
TotalAmount(ds) ==
    IF ds = {} THEN 0
    ELSE LET d == CHOOSE x \in ds : TRUE IN d.trust_amount + TotalAmount(ds \ {d})

\* every edge of the delegation graph
GraphEdges ==
    LET edges == chain.delegation_graph.edges
    IN UNION {{edges[k][i] : i \in 1..Len(edges[k])} : k \in DOMAIN edges}

ActiveEdges == {e \in GraphEdges : e.is_active}

RECURSIVE ReachableFrom(_, _)
ReachableFrom(nodes, pairs) ==
    LET more == nodes \cup {p[2] : p \in {q \in pairs : q[1] \in nodes}}
    IN IF more = nodes THEN nodes ELSE ReachableFrom(more, pairs)

\* some path of one or more active edges leads from the node back to itself
OnCycle(node) ==
    LET pairs == {<<e.from_node, e.to_node>> : e \in ActiveEdges}
    IN node \in ReachableFrom({p[2] : p \in {q \in pairs : q[1] = node}}, pairs)

-----------------------------------------------------------------------------
(* C11: calculate_trust_score returns 1.0 for the Foundation, and 0 for every other
   entity that no delegation in force names as delegate. *)
C11_FoundationAndUndelegatedScores ==
    Called("calculate_trust_score") =>
        LET entity_id == last_call.args[1]
        IN /\ entity_id = FoundationAddress => last_call.ret.value = Scale
           /\ (entity_id # FoundationAddress /\ IncomingInForce(entity_id) = {})
                 => last_call.ret.value = 0

(* C12: for an entity with a delegation in force, calculate_trust_score returns the
   mean of the delegators' trust scores weighted by type weight x level weight x
   trust_amount, taken over every delegation in force that names the entity as delegate:
   those of any kind of delegator and those create_delegation has committed. *)
C12_ScoreIsWeightedMeanOfAllIncoming ==
    Called("calculate_trust_score") =>
        LET sums == WeightedSums(IncomingInForce(last_call.args[1]))
        IN sums.weight_sum > 0
              => last_call.ret.value = sums.total_trust \div sums.weight_sum

(* C13: verify_chain returns false for a chain of fewer than three elements, and
   returns true only if the Foundation is active, chain[1] is an active origin wallet,
   chain[2] is an active issuer that a delegation edge from chain[1] leads to, and the
   owner holds an active credential issued by chain[2]. *)
C13_VerifiedChainIsBacked ==
    Called("verify_chain") =>
        LET credential == last_call.args[1]
            dc == credential.delegation_chain
        IN /\ Len(dc) < 3 => last_call.ret.value = FALSE
           /\ last_call.ret.value = TRUE =>
                 /\ chain.foundation.is_active
                 /\ dc[2] \in DOMAIN chain.origin_wallets
                 /\ chain.origin_wallets[dc[2]].is_active
                 /\ dc[3] \in DOMAIN chain.issuers
                 /\ chain.issuers[dc[3]].is_active
                 /\ \/ \E e \in ActiveEdges : e.from_node = dc[2] /\ e.to_node = dc[3]
                    \/ \E d \in OutgoingInForce(dc[2]) : d.delegate = dc[3]
                 /\ credential.owner \in DOMAIN chain.individuals
                 /\ chain.individuals[credential.owner].is_active
                 /\ chain.individuals[credential.owner].issuer = dc[3]

(* C14: the trust_amount of the delegations in force of an origin wallet or an issuer
   never adds up to more than its delegation_capacity, create_delegation refusing
   with InsufficientTrustCapacity what would exceed it. *)
C14_CapacityNeverExceeded ==
    /\ \A k \in DOMAIN chain.origin_wallets :
          TotalAmount(OutgoingInForce(k)) <= chain.origin_wallets[k].delegation_capacity
    /\ \A k \in DOMAIN chain.issuers :
          TotalAmount(OutgoingInForce(k)) <= chain.issuers[k].delegation_capacity

(* C15: the active edges of the delegation graph contain no cycle and no
   self-delegation, create_delegation refusing with SuspiciousActivity what would
   close one. *)
C15_NoCycleAmongActiveEdges ==
    \A e \in ActiveEdges : e.from_node # e.to_node /\ ~OnCycle(e.from_node)

(* C16: a create_delegation that returns an error leaves the delegation graph (nodes,
   edges, trust flows) and every entity's delegation list as they were. *)
C16_FailedCreateChangesNothing ==
    [][(last_call'.op = "create_delegation" /\ last_call'.ret.kind = "Err")
          => (chain' = chain /\ issued' = issued)]_vars

\* a refused create_delegation on a graph that already holds an edge
C16_Witness ==
    /\ Called("create_delegation")
    /\ last_call.ret.kind = "Err"
    /\ last_call.ret.error = "InsufficientTrustCapacity"
    /\ GraphEdges # {}

(* C17: once revoke_delegation has been called with the id of a delegation that
   create_delegation returned, the delegation is inactive: the graph holds no edge with
   that edge_id and no trust flow of that delegation. *)
C17_RevokedDelegationIsGone ==
    \A id \in revoked \cap IssuedIds :
        /\ \A e \in GraphEdges : e.edge_id # id
        /\ FlowId(id) \notin DOMAIN chain.delegation_graph.trust_flows

(* C18: revoke_delegation called with an id that names no delegation, or with an id
   it was called with before, returns Ok and changes no state of the chain. *)
C18_RevokeUnknownOrTwiceIsNoOp ==
    [][(/\ last_call'.op = "revoke_delegation"
        /\ \/ last_call'.args[1] \notin
                  IssuedIds \cup {d.delegation_id : d \in ListedDelegations}
           \/ last_call'.args[1] \in revoked)
          => (last_call'.ret.kind = "Ok" /\ chain' = chain /\ issued' = issued)]_vars

\* a second revocation of a delegation that create_delegation returned
C18_Witness ==
    /\ Called("revoke_delegation")
    /\ last_call.again
    /\ last_call.args[1] \in IssuedIds
    /\ last_call.ret.kind = "Ok"

-----------------------------------------------------------------------------
(* Vocabulary of the properties of the reward calculation *)

SumOfPools(d) ==
    AddNat(AddNat(AddNat(AddNat(d.validators, d.edge_nodes), d.stakers), d.dev_fund),
           d.environmental_fund)

\* the halving events whose height a block of this height has reached
HalvingsPast(height) ==
    {i \in 1..Len(HalvingSchedule) : HalvingSchedule[i].block_height <= height}

\* the multiplier of the last halving event reached, 1.0 before the first
HalvingMultiplier(height) ==
    IF HalvingsPast(height) = {} THEN Literal(1, 1)
    ELSE HalvingSchedule[CHOOSE i \in HalvingsPast(height) :
                            \A j \in HalvingsPast(height) : j <= i].reward_multiplier

\* the total with the halving multiplier applied to the base reward
HalvedTotal(b) ==
    F64AsNat(FMul(FMul(FMul(NatAsF64(BlockReward), HalvingMultiplier(b.header.height)),
                       calculate_trust_multiplier(b)),
                  FAdd(Literal(1, 1), calculate_environmental_bonus(b))))

-----------------------------------------------------------------------------
(* C19: the five pools calculate_block_rewards returns add up exactly to the
   total_reward it computed. *)
C19_PoolsSumToTotal ==
    rewards.pc = "done" => SumOfPools(rewards.distribution) = rewards.total_reward

(* C20: calculate_block_rewards applies the halving schedule: the total is computed
   from the base reward times 0.5 from height 210000 and times 0.25 from height 420000,
   so that a block past a threshold gets less than the same block just below it. *)
C20_HalvingApplied ==
    rewards.pc = "done" =>
        /\ rewards.total_reward = HalvedTotal(block)
        /\ \A i \in HalvingsPast(block.header.height) :
              LET below == [block EXCEPT !.header.height =
                                HalvingSchedule[i].block_height - 1]
              IN LessNat(rewards.total_reward,
                         TotalReward(BlockReward, calculate_trust_multiplier(below),
                                     calculate_environmental_bonus(below)))

-----------------------------------------------------------------------------
(* Vocabulary of the properties of the compliance manager *)

\* the origin-wallet registries register_origin_wallet can have built
WalletRegistries ==
    {<<>>} \cup {Insert(<<>>, w.country_code,
                        OriginWalletCompliance(w.country_code, w.wallet_address,
                                               w.compliance_level, now)) : w \in WalletInputs}

\* the statuses the rule set in force yields for an operation with this id on this layer
StatusesUnderActiveRules(id, layer_type) ==
    {ComputeStatus([compliance_manager EXCEPT !.origin_wallets = w], operation,
                   compliance_manager.layers[layer_type], now) :
        operation \in {o \in OperationInputs : o.id = id}, w \in WalletRegistries}

\* what the call recorded in last_call returns when the cache is empty
UncachedVerdict ==
    check_compliance([compliance_manager EXCEPT !.compliance_cache = <<>>],
                     last_call.args[1], last_call.args[2], now).ret.value.is_compliant

-----------------------------------------------------------------------------
(* C21: once update_compliance_rules has completed, no check_compliance call returns a
   status computed under an earlier rule set: every status check_compliance returns,
   from the cache or not, is one the rule set in force yields for an operation of that
   id on that layer. *)
C21_NoStatusFromPreviousRules ==
    Called("check_compliance") =>
        last_call.ret.value
            \in StatusesUnderActiveRules(last_call.args[1].id, last_call.args[2])

\* after a rule update, a check answered from the cache with a failure of the new rule
C21_Witness ==
    /\ Called("check_compliance")
    /\ last_call.cached
    /\ compliance_manager.active_rules = <<AMLRule>>
    /\ Contains(last_call.ret.value.errors,
                "Mandatory compliance failure: Anti-Money Laundering checks")

(* C29: check_compliance returns the is_compliant verdict the same call returns with an
   empty cache, whatever check_compliance, register_origin_wallet and
   update_compliance_rules calls came before. *)
C29_CachedVerdictIsFresh ==
    Called("check_compliance") => last_call.ret.value.is_compliant = UncachedVerdict

-----------------------------------------------------------------------------
(* Vocabulary of the properties of the bridge oracle *)

BridgeCalled == Called("bridge_to_privacy") \/ Called("bridge_to_mainnet")

DistinctApprovals(approvals) == Cardinality({approvals[i] : i \in 1..Len(approvals)})

\* the outcome the failure order InvalidAmount, InsufficientConfirmations,
\* MultisigThresholdNotMet, PegViolation prescribes
PrescribedOutcome(amount, locked_after, circulating_after, approvals, confirmations) ==
    CASE amount = 0 -> Err("InvalidAmount")
      [] confirmations < bridge_oracle.params.required_confirmations ->
            Err("InsufficientConfirmations")
      [] DistinctApprovals(approvals) < bridge_oracle.params.multisig_threshold ->
            Err("MultisigThresholdNotMet")
      [] locked_after # circulating_after -> Err("PegViolation")
      [] OTHER -> Ok(Healthy(locked_after, circulating_after))

(* C22: bridge_to_privacy and bridge_to_mainnet fail with InvalidAmount when amount = 0,
   otherwise with InsufficientConfirmations when confirmations are below
   required_confirmations, otherwise with MultisigThresholdNotMet when the distinct
   approvals are below multisig_threshold, otherwise with PegViolation when
   locked_mainnet differs from circulating_privacy; success carries a Healthy peg. *)
C22_BridgeFailureOrder ==
    BridgeCalled =>
        last_call.ret = PrescribedOutcome(last_call.args[1], last_call.args[2],
                                          last_call.args[3], last_call.args[4],
                                          last_call.args[5])

-----------------------------------------------------------------------------
(* Vocabulary of the well-formedness of the delegation graph *)

GraphNodes == DOMAIN chain.delegation_graph.nodes

TrustFlows ==
    {chain.delegation_graph.trust_flows[f] : f \in DOMAIN chain.delegation_graph.trust_flows}

EndpointsAreNodes ==
    \A e \in GraphEdges : e.from_node \in GraphNodes /\ e.to_node \in GraphNodes

PathsFollowEdges ==
    \A flow \in TrustFlows :
        \A i \in 1..(Len(flow.path) - 1) :
            \E e \in GraphEdges : e.from_node = flow.path[i] /\ e.to_node = flow.path[i + 1]

EdgesPairedWithFlows ==
    /\ \A e \in GraphEdges : FlowId(e.edge_id) \in DOMAIN chain.delegation_graph.trust_flows
    /\ \A flow \in TrustFlows : \E e \in GraphEdges : FlowId(e.edge_id) = flow.flow_id

(* C23: after any sequence of completed create_delegation and revoke_delegation calls
   the delegation graph is well-formed: both endpoints of every edge are nodes, every
   trust flow's path runs along existing edges, and the edge with id X exists exactly
   when the flow flow_X exists. *)
C23_GraphWellFormed ==
    /\ EndpointsAreNodes
    /\ PathsFollowEdges
    /\ EdgesPairedWithFlows

-----------------------------------------------------------------------------
(* Vocabulary of the flow strength of a delegation chain *)

\* weight of position i (from 0) in tenths: 1.0, 0.8, 0.6, then 0.4
WeightTenths(i) == IF i = 0 THEN 10 ELSE IF i = 1 THEN 8 ELSE IF i = 2 THEN 6 ELSE 4

RECURSIVE WeightedScoresFrom(_, _)
WeightedScoresFrom(dc, i) ==
    IF i > Len(dc) THEN 0
    ELSE get_entity_trust_score(chain, dc[i]) * WeightTenths(i - 1)
            + WeightedScoresFrom(dc, i + 1)

\* ten times the sum over the positions of entity trust score x position weight
WeightedScores(dc) == WeightedScoresFrom(dc, 1)

\* the mean of the weighted scores is below one half
MeanBelowHalf(dc) == 2 * WeightedScores(dc) < 10 * Scale * Len(dc)

\* the three hops of the chain verify_chain checks before the flow strength
HopsVerify(credential) ==
    LET dc == credential.delegation_chain
    IN /\ Len(dc) >= 3
       /\ verify_foundation_to_origin_wallet(chain, dc[1], dc[2])
       /\ verify_origin_wallet_to_issuer(chain, dc[2], dc[3])
       /\ verify_issuer_to_individual(chain, dc[3], credential.owner)

(* C24: the flow strength of a delegation chain is the mean over its positions of
   entity trust score x position weight, with weights 1.0, 0.8, 0.6 for positions
   0, 1, 2 and 0.4 deeper; verify_chain rejects every chain whose flow strength is
   below 0.5, and accepts a chain of 0.5 or more whose hops verify. *)
C24_FlowStrengthThreshold ==
    Called("verify_chain") =>
        LET credential == last_call.args[1]
            dc == credential.delegation_chain
        IN /\ Len(dc) > 0 =>
                calculate_trust_flow_strength(chain, credential)
                    = WeightedScores(dc) \div (10 * Len(dc))
           /\ MeanBelowHalf(dc) => last_call.ret = Ok(FALSE)
           /\ ~MeanBelowHalf(dc) /\ HopsVerify(credential) => last_call.ret = Ok(TRUE)

\* a chain whose hops verify, rejected for a flow strength below 0.5
C24_Witness ==
    /\ Called("verify_chain")
    /\ HopsVerify(last_call.args[1])
    /\ MeanBelowHalf(last_call.args[1].delegation_chain)
    /\ last_call.ret = Ok(FALSE)

(* C28: verify_chain accepts a credential only if the first element of its
   delegation_chain is the Foundation's address, whatever the other hops are. *)
C28_AcceptedChainStartsAtFoundation ==
    Called("verify_chain") /\ last_call.ret = Ok(TRUE) =>
        last_call.args[1].delegation_chain[1] = chain.foundation.address

-----------------------------------------------------------------------------
(* C26 *)

\* the active validators whose id some attached signature bears
ActiveSigners ==
    {Signatures[i].validator_id : i \in 1..Len(Signatures)}
        \cap {active_validators[i] : i \in 1..Len(active_validators)}

(* C26: validate_block accepts a block only if it carries signatures from at least
   required_signatures distinct members of the active validator set: repeated
   validator_ids and validator_ids outside the active set do not count. *)
C26_QuorumOfDistinctActiveSigners ==
    Accepted => Cardinality(ActiveSigners) >= Quorum

-----------------------------------------------------------------------------
(* C27 *)

(* C27: validate_environmental_data never aborts: for environmental data whose
   last_updated is later than the current time, current_time - last_updated neither
   panics nor wraps around to a huge age, and the gate returns a boolean verdict. *)
C27_FutureTimestampNoUnderflow ==
    /\ result # "panic"
    /\ (Evaluated("environmental_data") /\ IsSome(block.environmental_data)
           /\ Unwrap(block.environmental_data).last_updated > now)
          => reason # "stale"

-----------------------------------------------------------------------------
(* Vocabulary of the properties of the trust multiplier *)

MultiplierCalled == Called("calculate_trust_multiplier")

\* bucket i of the configured list holds the trust score: min_trust <= score < max_trust
Holds(i, trust_score) ==
    /\ reward_config.trust_thresholds[i].min_trust <= trust_score
    /\ trust_score < reward_config.trust_thresholds[i].max_trust

Buckets == 1..Len(reward_config.trust_thresholds)

\* the multiplier returned when the call recorded in last_call is made with this score
MultiplierAt(trust_score) == TrustMultiplierFor(reward_config, trust_score)

(* C25: calculate_trust_multiplier returns the multiplier of the first configured bucket
   with min_trust <= trust_score < max_trust, and base_multiplier (1.0) when no bucket
   holds the proposer's trust score or the block has no proposer. *)
C25_FirstBucketOrBase ==
    MultiplierCalled =>
        LET proposer == last_call.args[1]
            returned == last_call.ret.value
        IN IF IsSome(proposer) /\ \E i \in Buckets : Holds(i, Unwrap(last_call.args[2]))
           THEN \E i \in Buckets :
                   /\ Holds(i, Unwrap(last_call.args[2]))
                   /\ \A j \in 1..(i - 1) : ~Holds(j, Unwrap(last_call.args[2]))
                   /\ returned = reward_config.trust_thresholds[i].multiplier
           ELSE returned = reward_config.base_multiplier /\ returned = Literal(1, 1)

\* a trust score two buckets hold, answered with the multiplier of the first
C25_Witness ==
    /\ MultiplierCalled
    /\ IsSome(last_call.args[1])
    /\ Cardinality({i \in Buckets : Holds(i, Unwrap(last_call.args[2]))}) = 2
    /\ last_call.ret.value = reward_config.trust_thresholds[1].multiplier

(* C30: with the default buckets the trust multiplier is non-decreasing in the
   proposer's trust score over [0, 1]: a higher score never gets a lower multiplier,
   and the score 1.0 gets the maximum multiplier 2.0. *)
C30_MultiplierMonotone ==
    (MultiplierCalled /\ IsSome(last_call.args[1]) /\ reward_config = DefaultTrustMultipliers)
        => LET trust_score == Unwrap(last_call.args[2])
               returned == last_call.ret.value
           IN /\ \A lower \in TrustScoreInputs :
                    lower <= trust_score => ~FLess(returned, MultiplierAt(lower))
              /\ trust_score = Scale => returned = Literal(2, 1)

====
